---------------------------- MODULE Spec2Model ----------------------------
(***************************************************************************)
(* Model of the acquisition pipeline of hv_collector.py:                   *)
(*   collect_all_data -> collect_asset_data -> fetch_coingecko_data /      *)
(*   fetch_binance_futures_data (klines, funding rate, open interest) /    *)
(*   fetch_kraken_options_iv -> calculate_hv_metrics -> all_records.       *)
(*                                                                         *)
(* The program is sequential.  Every HTTP exchange is two steps: the       *)
(* program sends a request (the request is then "in flight"), and the      *)
(* provider answers; the answering step runs the program up to its next    *)
(* request.  The provider is the environment: it may answer any request    *)
(* with a success page, a rate-limit status, another status, a payload of  *)
(* the wrong shape, or the request may raise (timeout, connection error).  *)
(*                                                                         *)
(* Data abstraction: a row is represented by its timestamp only, and a     *)
(* list of rows by its length; a provider page is what the code reads of   *)
(* it, its length and its last timestamp.  Prices are taken to be numeric. *)
(* Time is counted in ticks from start_date; sleeps in tenths of a second. *)
(***************************************************************************)
EXTENDS Integers, Sequences, FiniteSets, TLC

(* ------------------------------ bounds -------------------------------- *)
\* Largest timestamp a provider returns; the requested range is 0..MaxT.
MaxT == 3
\* Cap on the rows one fetch accumulates (keeps the state space finite
\* against a provider that never advances the cursor).
MaxRows == 3
\* Number of rows of the asset catalog.
NumAssets == 2
\* Depth at which the interpreter refuses a further nested call of
\* fetch_coingecko_data (RecursionError); stands for sys.getrecursionlimit.
RecursionLimit == 2

(* ------------------------- program constants -------------------------- *)
\* Page limits of the three paginated endpoints: 1500, 1000 and 500 in the
\* source, all scaled to 2 rows a page here.
KLINES_LIMIT == 2
FUNDING_LIMIT == 2
OI_LIMIT == 2
\* Cursor advance past the last row: +1 ms for klines and funding, +1 day
\* (86400000 ms) for open interest; a day is scaled to 2 ticks.
KLINES_STEP == 1
FUNDING_STEP == 1
OI_STEP == 2
\* time.sleep durations, in tenths of a second.
CG_RATE_SLEEP == 600
BN_RATE_SLEEP == 100
PAGE_SLEEP == 5
CG_PACE == 12
BN_PACE == 5
KR_PACE == 10

\* Python's None (a record, as every value it stands in for is one).
None == [none |-> TRUE]
START_TIME == 0
END_TIME == MaxT
Times == 0..MaxT

\* Catalog symbols by row; kraken_pairs is the table of fetch_kraken_options_iv.
Symbols == <<"BTC", "XYZ", "ETH", "PEPE", "SOL">>
kraken_pairs == {"BTC", "ETH", "XRP", "SOL", "DOGE", "ADA", "DOT", "MATIC", "LINK", "AVAX", "LTC"}
\* CG API ID values of a catalog row: a real id, or a blank form ("NaN" is
\* the missing value pd.isna detects).  Row i is given the i-th blank form,
\* so that every form occurs without multiplying the catalogs.
BlankForms == <<"NaN", "N/A", "">>
CgIds(i) == {"bitcoin", BlankForms[((i - 1) % 3) + 1]}

VARIABLES
  assets_df,      \* the catalog: sequence of [symbol, cg_id]
  idx,            \* collect_all_data: index of the row being processed
  pc,             \* program position
  cg_depth,       \* nesting depth of fetch_coingecko_data (retries by recursion)
  current_start,  \* cursor of the paginated loop that is running
  all_klines,     \* rows accumulated by the klines loop
  all_funding,    \* rows accumulated by the funding-rate loop
  all_oi,         \* rows accumulated by the open-interest loop
  funding_rates,  \* fetch_binance_funding_rates' return value
  inflight,       \* the request awaiting its response, or None
  result,         \* collect_asset_data's result dict
  all_records,    \* collect_all_data's all_records
  hv_data,        \* what collect_all_data returned and main did with it
  \* history (not program state):
  slept,          \* the sleeps executed since the last response
  last_req,       \* the request sent before the one in flight
  last_resp,      \* the last response: [api, status, n, last]
  attempts,       \* providers requested for the current asset, in order
  attempt_open,   \* a provider attempt has sent a request and not returned
  last_attempt,   \* the provider attempt that ended last: [prov, ok]
  hv_hist,        \* per processed row: how it ended and the records it gave
  \* the volatility engines, run on one series (EngineSpec):
  observations,     \* the daily observations of one asset, and a second
  observations_alt, \* series that agrees with them up to a date
  vol_windows,      \* the screener's configured HV windows
  results,          \* the collector's calculate_hv_metrics(price_data)
  results_alt,      \* the same, of the second series
  processed_df,     \* the screener's calculate_hv_metrics(raw_df, vol_windows)
  processed_df_alt, \* the same, of the second series
  metrics_row,      \* what the screener displays and feeds the pricer
  epc,              \* engine position
  \* the adapters, run on one provider payload (AdapterSpec):
  payload,          \* the rows the provider returned, page after page
  series_out,       \* the frame the adapter returned
  records_out,      \* calculate_hv_metrics of that frame
  apc,              \* adapter position
  \* one call of a function that keeps no state (FunctionSpec):
  call,             \* the function and its arguments
  ret,              \* what it returned
  fpc,              \* "called" or "returned"
  \* one paginated fetch against a provider's rows (PageSpec):
  book,             \* the timestamps of the rows the provider holds
  page_api,         \* which of the three paginated endpoints is fetched
  page_start,       \* current_start
  fetched,          \* the accumulator (all_klines, all_funding, all_oi)
  pages,            \* history: the pages received, each with its cursor
  ppc               \* position of the fetch

pipeline_vars ==
  <<assets_df, idx, pc, cg_depth, current_start, all_klines, all_funding,
    all_oi, funding_rates, inflight, result, all_records, hv_data,
    slept, last_req, last_resp, attempts, attempt_open, last_attempt,
    hv_hist>>
engine_vars ==
  <<observations, observations_alt, vol_windows, results, results_alt,
    processed_df, processed_df_alt, metrics_row, epc>>
adapter_vars == <<payload, series_out, records_out, apc>>
function_vars == <<call, ret, fpc>>
page_vars == <<book, page_api, page_start, fetched, pages, ppc>>
vars == <<pipeline_vars, engine_vars, adapter_vars, function_vars, page_vars>>


(* ------------------------------ helpers ------------------------------- *)
\* Mutant of BlankCgId: only the empty string is blank.
BlankCgId_OnlyEmpty(cg_id) == cg_id = ""

BlankCgId(cg_id) == cg_id = "NaN" \/ cg_id \in {"N/A", ""}

\* A DataFrame: its number of rows and, per column, the provider whose
\* response the column was built from.
Frame(n, columns, provider) == [rows |-> n, src |-> [c \in columns |-> provider]]

CoinGeckoFrame(n) == Frame(n, {"date", "price"}, "coingecko")
KlinesFrame(n) == Frame(n, {"date", "price", "volume", "quote_volume", "trades"}, "binance")
\* The auxiliary frames are read for their columns only (the merge keeps the
\* left rows), so they carry no row count.
FundingFrame == [src |-> [c \in {"date", "funding_rate"} |-> "binance"]]
OiFrame == [src |-> [c \in {"date", "open_interest", "open_interest_value"} |-> "binance"]]
KrakenFrame(n) == Frame(n, {"date", "price"}, "kraken")

\* result.merge(right, on='date', how='left'), skipped when right is None:
\* the left rows are kept and the right columns are added to them.
MergeLeft(left, right) ==
  IF right = None THEN left
  ELSE [rows |-> left.rows, src |-> left.src @@ right.src]

\* "data is not None and len(data) > 0" of collect_asset_data.
Usable(data) == data # None /\ data.rows > 0

Sleep(why, dur) == [why |-> why, dur |-> dur]

Resp(status, n, last) == [status |-> status, n |-> n, last |-> last]

\* What a provider may answer to one page request of a paginated endpoint.
PageResponses(limit, rows) ==
  {Resp("200", 0, 0)}
    \cup {Resp("200", n, t) : n \in {m \in 1..limit : rows + m <= MaxRows}, t \in Times}
    \cup {Resp(s, 0, 0) : s \in {"429", "500", "shape", "raise"}}

\* What a provider may answer to a single-request fetch (CoinGecko, Kraken).
SingleResponses ==
  {Resp("200", n, 0) : n \in 0..MaxRows}
    \cup {Resp(s, 0, 0) : s \in {"429", "500", "shape", "raise"}}

\* Mutant of PageStep: the rate-limited attempt advances the cursor.
PageStep_AdvanceOn429(resp, rows, cursor, limit, step) ==
  IF resp.status = "200" THEN
    IF resp.n = 0
      THEN [rows |-> rows, cursor |-> cursor, ctl |-> "break", sl |-> <<>>]
    ELSE IF resp.n < limit
      THEN [rows |-> rows + resp.n, cursor |-> resp.last + step, ctl |-> "break", sl |-> <<>>]
    ELSE [rows |-> rows + resp.n, cursor |-> resp.last + step, ctl |-> "loop",
          sl |-> <<Sleep("throttle", PAGE_SLEEP)>>]
  ELSE IF resp.status = "429"
    THEN [rows |-> rows, cursor |-> cursor + step, ctl |-> "loop",
          sl |-> <<Sleep("ratelimit", BN_RATE_SLEEP)>>]
  ELSE [rows |-> rows, cursor |-> cursor, ctl |-> "fail", sl |-> <<>>]

\* Mutant of PageStep: a rate-limit response ends the fetch like any other
\* error status (a retry count of zero).
PageStep_GiveUpOn429(resp, rows, cursor, limit, step) ==
  IF resp.status = "200" THEN
    IF resp.n = 0
      THEN [rows |-> rows, cursor |-> cursor, ctl |-> "break", sl |-> <<>>]
    ELSE IF resp.n < limit
      THEN [rows |-> rows + resp.n, cursor |-> resp.last + step, ctl |-> "break", sl |-> <<>>]
    ELSE [rows |-> rows + resp.n, cursor |-> resp.last + step, ctl |-> "loop",
          sl |-> <<Sleep("throttle", PAGE_SLEEP)>>]
  ELSE [rows |-> rows, cursor |-> cursor, ctl |-> "fail", sl |-> <<>>]

\* Mutant of PageStep: the cursor is set to the last timestamp itself.
PageStep_CursorAtLast(resp, rows, cursor, limit, step) ==
  IF resp.status = "200" THEN
    IF resp.n = 0
      THEN [rows |-> rows, cursor |-> cursor, ctl |-> "break", sl |-> <<>>]
    ELSE IF resp.n < limit
      THEN [rows |-> rows + resp.n, cursor |-> resp.last, ctl |-> "break", sl |-> <<>>]
    ELSE [rows |-> rows + resp.n, cursor |-> resp.last, ctl |-> "loop",
          sl |-> <<Sleep("throttle", PAGE_SLEEP)>>]
  ELSE IF resp.status = "429"
    THEN [rows |-> rows, cursor |-> cursor, ctl |-> "loop",
          sl |-> <<Sleep("ratelimit", BN_RATE_SLEEP)>>]
  ELSE [rows |-> rows, cursor |-> cursor, ctl |-> "fail", sl |-> <<>>]

\* Mutant of PageStep: an error status is retried like a rate limit instead
\* of ending the fetch.
PageStep_RetryOnError(resp, rows, cursor, limit, step) ==
  IF resp.status = "200" THEN
    IF resp.n = 0
      THEN [rows |-> rows, cursor |-> cursor, ctl |-> "break", sl |-> <<>>]
    ELSE IF resp.n < limit
      THEN [rows |-> rows + resp.n, cursor |-> resp.last + step, ctl |-> "break", sl |-> <<>>]
    ELSE [rows |-> rows + resp.n, cursor |-> resp.last + step, ctl |-> "loop",
          sl |-> <<Sleep("throttle", PAGE_SLEEP)>>]
  ELSE [rows |-> rows, cursor |-> cursor, ctl |-> "loop",
        sl |-> <<Sleep("ratelimit", BN_RATE_SLEEP)>>]

\* Mutant of PageStep: an error status leaves the loop with the pages
\* accumulated so far instead of returning None.
PageStep_BreakOnError(resp, rows, cursor, limit, step) ==
  IF resp.status = "200" THEN
    IF resp.n = 0
      THEN [rows |-> rows, cursor |-> cursor, ctl |-> "break", sl |-> <<>>]
    ELSE IF resp.n < limit
      THEN [rows |-> rows + resp.n, cursor |-> resp.last + step, ctl |-> "break", sl |-> <<>>]
    ELSE [rows |-> rows + resp.n, cursor |-> resp.last + step, ctl |-> "loop",
          sl |-> <<Sleep("throttle", PAGE_SLEEP)>>]
  ELSE IF resp.status = "429"
    THEN [rows |-> rows, cursor |-> cursor, ctl |-> "loop",
          sl |-> <<Sleep("ratelimit", BN_RATE_SLEEP)>>]
  ELSE [rows |-> rows, cursor |-> cursor, ctl |-> "break", sl |-> <<>>]

\* One pass through the body of a paginated while loop, given the response:
\* the rows and the cursor after it, how the loop goes on ("loop": back to
\* the while test, "break": leave the loop, "fail": return None) and the
\* sleeps executed.
PageStep(resp, rows, cursor, limit, step) ==
  IF resp.status = "200" THEN
    IF resp.n = 0
      THEN [rows |-> rows, cursor |-> cursor, ctl |-> "break", sl |-> <<>>]
    ELSE IF resp.n < limit
      THEN [rows |-> rows + resp.n, cursor |-> resp.last + step, ctl |-> "break", sl |-> <<>>]
    ELSE [rows |-> rows + resp.n, cursor |-> resp.last + step, ctl |-> "loop",
          sl |-> <<Sleep("throttle", PAGE_SLEEP)>>]
  ELSE IF resp.status = "429"
    THEN [rows |-> rows, cursor |-> cursor, ctl |-> "loop",
          sl |-> <<Sleep("ratelimit", BN_RATE_SLEEP)>>]
  ELSE [rows |-> rows, cursor |-> cursor, ctl |-> "fail", sl |-> <<>>]

\* The paginated endpoints, their page limits and cursor steps.
Paginated == {"klines", "funding", "oi"}
LimitOf(api) ==
  CASE api = "klines" -> KLINES_LIMIT [] api = "funding" -> FUNDING_LIMIT [] api = "oi" -> OI_LIMIT
StepOf(api) ==
  CASE api = "klines" -> KLINES_STEP [] api = "funding" -> FUNDING_STEP [] api = "oi" -> OI_STEP

\* Alphabetical order of the symbols, for df.sort_values(['symbol', 'date']).
SymbolOrder == <<"BTC", "ETH", "PEPE", "SOL", "XYZ">>
SymbolRank(s) == CHOOSE i \in 1..Len(SymbolOrder) : SymbolOrder[i] = s

RecordLeq(a, b) ==
  \/ SymbolRank(a.symbol) < SymbolRank(b.symbol)
  \/ a.symbol = b.symbol /\ a.date <= b.date

\* The stable sort of the records on (symbol, date): a record's place is one
\* more than the number of records that go before it.
SortRecords(records) ==
  LET n == Len(records)
      Before(i, j) == \/ ~RecordLeq(records[j], records[i])
                      \/ RecordLeq(records[i], records[j]) /\ i < j
      Place(i) == 1 + Cardinality({j \in 1..n : j # i /\ Before(j, i)})
  IN [k \in 1..n |-> records[CHOOSE i \in 1..n : Place(i) = k]]

\* Mutant of calculate_hv_metrics: a single observation is enough.
calculate_hv_metrics_OneRow(price_data, symbol) ==
  IF price_data = None \/ price_data.rows < 1 THEN <<>>
  ELSE [d \in 1..price_data.rows |-> [symbol |-> symbol, date |-> d]]

\* calculate_hv_metrics: no record for fewer than 2 rows, else one a row.
calculate_hv_metrics(price_data, symbol) ==
  IF price_data = None \/ price_data.rows < 2 THEN <<>>
  ELSE [d \in 1..price_data.rows |-> [symbol |-> symbol, date |-> d]]

\* "record['data_sources'] = ','.join(asset_data['data_sources'])".
TagRecords(hv_records, data_sources) ==
  [i \in 1..Len(hv_records) |->
     [symbol |-> hv_records[i].symbol, date |-> hv_records[i].date,
      data_sources |-> data_sources]]

(* -------------------------------- Init -------------------------------- *)
Catalogs ==
  {[i \in 1..NumAssets |-> [symbol |-> Symbols[i], cg_id |-> ids[i]]] :
     ids \in {f \in [1..NumAssets -> {"bitcoin"} \cup {BlankForms[k] : k \in 1..3}] :
                \A i \in 1..NumAssets : f[i] \in CgIds(i)}}

\* The engines and the adapters before they are given anything.
EngineIdle ==
  /\ observations = <<>>
  /\ observations_alt = <<>>
  /\ vol_windows = {}
  /\ results = None
  /\ results_alt = None
  /\ processed_df = None
  /\ processed_df_alt = None
  /\ metrics_row = None
  /\ epc = "idle"

AdapterIdle ==
  /\ payload = None
  /\ series_out = None
  /\ records_out = None
  /\ apc = "idle"

FunctionIdle ==
  /\ call = None
  /\ ret = None
  /\ fpc = "idle"

PageIdle ==
  /\ book = {}
  /\ page_api = "none"
  /\ page_start = START_TIME
  /\ fetched = <<>>
  /\ pages = <<>>
  /\ ppc = "idle"

Init ==
  /\ EngineIdle
  /\ AdapterIdle
  /\ FunctionIdle
  /\ PageIdle
  /\ assets_df \in Catalogs
  /\ idx = 1
  /\ pc = "start"
  /\ cg_depth = 0
  /\ current_start = START_TIME
  /\ all_klines = 0
  /\ all_funding = 0
  /\ all_oi = 0
  /\ funding_rates = None
  /\ inflight = None
  /\ result = None
  /\ all_records = <<>>
  /\ hv_data = None
  /\ slept = <<>>
  /\ last_req = None
  /\ last_resp = None
  /\ attempts = <<>>
  /\ attempt_open = FALSE
  /\ last_attempt = None
  /\ hv_hist = <<>>

(* ----------------------- collect_asset_data --------------------------- *)
\* Mutant of AfterCoinGecko: Binance is asked "for additional data" although
\* CoinGecko has delivered.
AfterCoinGecko_AlsoBinance(data, sl) ==
  /\ last_attempt' = [prov |-> "coingecko", ok |-> Usable(data)]
  /\ cg_depth' = 0
  /\ pc' = "klines_head"
  /\ IF Usable(data)
       THEN /\ result' = [result EXCEPT !.price_data = data,
                                        !.data_sources = Append(@, "coingecko")]
            /\ slept' = Append(sl, Sleep("pace", CG_PACE))
       ELSE /\ result' = result
            /\ slept' = sl

\* The three fragments below are what collect_asset_data does when an
\* adapter returns `data`, `sl` being the sleeps executed so far in the step.

\* Lines 496-499, then 502-503: entering fetch_binance_futures_data.
AfterCoinGecko(data, sl) ==
  /\ last_attempt' = [prov |-> "coingecko", ok |-> Usable(data)]
  /\ cg_depth' = 0
  /\ IF Usable(data)
       THEN /\ result' = [result EXCEPT !.price_data = data,
                                        !.data_sources = Append(@, "coingecko")]
            /\ slept' = Append(sl, Sleep("pace", CG_PACE))
            /\ pc' = "metrics"
       ELSE /\ result' = result
            /\ slept' = sl
            /\ pc' = "klines_head"

\* Mutant of AfterBinance: Kraken is tried although Binance has delivered.
AfterBinance_NoStop(data, sl) ==
  /\ last_attempt' = [prov |-> "binance", ok |-> Usable(data)]
  /\ pc' = "kr_call"
  /\ IF Usable(data)
       THEN /\ result' = [result EXCEPT !.price_data = data,
                                        !.data_sources = Append(@, "binance")]
            /\ slept' = Append(sl, Sleep("pace", BN_PACE))
       ELSE /\ result' = result
            /\ slept' = sl

\* Lines 504-507, then 510-511.
AfterBinance(data, sl) ==
  /\ last_attempt' = [prov |-> "binance", ok |-> Usable(data)]
  /\ IF Usable(data)
       THEN /\ result' = [result EXCEPT !.price_data = data,
                                        !.data_sources = Append(@, "binance")]
            /\ slept' = Append(sl, Sleep("pace", BN_PACE))
            /\ pc' = "metrics"
       ELSE /\ result' = result
            /\ slept' = sl
            /\ pc' = "kr_call"

\* Lines 512-517.
AfterKraken(data, sl) ==
  /\ last_attempt' = [prov |-> "kraken", ok |-> Usable(data)]
  /\ pc' = "metrics"
  /\ IF Usable(data)
       THEN /\ result' = [result EXCEPT !.price_data = data,
                                        !.data_sources = Append(@, "kraken")]
            /\ slept' = Append(sl, Sleep("pace", KR_PACE))
       ELSE /\ result' = result
            /\ slept' = sl

\* Sending a request: it is in flight, and the provider is noted in
\* `attempts` when the request opens the provider's attempt.
Send(api, provider, start, limit) ==
  /\ inflight' = [api |-> api, startTime |-> start, endTime |-> END_TIME, limit |-> limit]
  /\ last_req' = inflight'
  /\ attempts' = IF attempt_open THEN attempts ELSE Append(attempts, provider)
  /\ attempt_open' = TRUE

\* Receiving the response to the request in flight.
Receive(resp) ==
  /\ inflight' = None
  /\ last_resp' = [api |-> inflight.api, status |-> resp.status, n |-> resp.n,
                   last |-> resp.last]
  /\ UNCHANGED <<last_req, attempts>>

\* collect_all_data's for loop takes the next row and collect_asset_data
\* starts on it (lines 640-645, 479-494).  The locals of the three Binance
\* fetch functions are initialised here, before any of them runs.
StartAsset ==
  /\ UNCHANGED <<engine_vars, adapter_vars, function_vars, page_vars>>
  /\ pc = "start"
  /\ idx <= NumAssets
  /\ result' = [symbol |-> assets_df[idx].symbol, coingecko_id |-> assets_df[idx].cg_id,
                data_sources |-> <<>>, price_data |-> None]
  /\ pc' = IF ~BlankCgId(assets_df[idx].cg_id) THEN "cg_call" ELSE "klines_head"
  /\ cg_depth' = 0
  /\ current_start' = START_TIME
  /\ all_klines' = 0
  /\ all_funding' = 0
  /\ all_oi' = 0
  /\ funding_rates' = None
  /\ attempts' = <<>>
  /\ attempt_open' = FALSE
  /\ UNCHANGED <<assets_df, idx, inflight, all_records, hv_data, slept, last_req,
                 last_resp, last_attempt, hv_hist>>

(* ----------------------- fetch_coingecko_data ------------------------- *)
\* Lines 105-122: the request of one (possibly nested) call.
CoinGeckoRequest ==
  /\ UNCHANGED <<engine_vars, adapter_vars, function_vars, page_vars>>
  /\ pc = "cg_call"
  /\ ~BlankCgId(result.coingecko_id)
  /\ Send("coingecko", "coingecko", START_TIME, 0)
  /\ pc' = "cg_wait"
  /\ UNCHANGED <<assets_df, idx, cg_depth, current_start, all_klines, all_funding,
                 all_oi, funding_rates, result, all_records, hv_data, slept,
                 last_resp, last_attempt, hv_hist>>

\* Lines 124-147.  On 429 the function sleeps and calls itself; the nested
\* call that exceeds the interpreter's recursion limit raises RecursionError,
\* which the except clause turns into None, returned through every frame.
CoinGeckoData(resp) ==
  IF resp.status = "200" /\ resp.n > 0 THEN CoinGeckoFrame(resp.n) ELSE None

CoinGeckoResponse ==
  /\ UNCHANGED <<engine_vars, adapter_vars, function_vars, page_vars>>
  /\ pc = "cg_wait"
  /\ \E resp \in SingleResponses :
       /\ Receive(resp)
       /\ IF resp.status = "429" /\ cg_depth < RecursionLimit
            THEN /\ cg_depth' = cg_depth + 1
                 /\ slept' = <<Sleep("ratelimit", CG_RATE_SLEEP)>>
                 /\ pc' = "cg_call"
                 /\ UNCHANGED <<result, last_attempt, attempt_open>>
            ELSE /\ AfterCoinGecko(CoinGeckoData(resp),
                                   IF resp.status = "429"
                                     THEN <<Sleep("ratelimit", CG_RATE_SLEEP)>> ELSE <<>>)
                 /\ attempt_open' = FALSE
  /\ UNCHANGED <<assets_df, idx, current_start, all_klines, all_funding, all_oi,
                 funding_rates, all_records, hv_data, hv_hist>>

(* -------------------- fetch_binance_futures_data ---------------------- *)
\* fetch_binance_futures_data returns `data` to collect_asset_data; its
\* locals and those of the two auxiliary fetches are gone.
BinanceReturn(data, sl) ==
  /\ AfterBinance(data, sl)
  /\ attempt_open' = FALSE
  /\ all_klines' = 0
  /\ all_funding' = 0
  /\ all_oi' = 0
  /\ funding_rates' = None
  /\ current_start' = START_TIME

\* Lines 210-229 and 266-270: after the klines loop.  No rows: return None;
\* else the DataFrame is built and fetch_binance_funding_rates is entered,
\* which starts its own cursor at start_time.
AfterKlines(n, sl) ==
  IF n = 0
    THEN BinanceReturn(None, sl)
    ELSE /\ pc' = "funding_head"
         /\ slept' = sl
         /\ all_klines' = n
         /\ current_start' = START_TIME
         /\ UNCHANGED <<result, last_attempt, attempt_open, all_funding, all_oi,
                        funding_rates>>

\* Lines 176-185: the while test and the request of the page at the cursor.
KlinesRequest ==
  /\ UNCHANGED <<engine_vars, adapter_vars, function_vars, page_vars>>
  /\ pc = "klines_head"
  /\ IF current_start < END_TIME
       THEN /\ Send("klines", "binance", current_start, KLINES_LIMIT)
            /\ pc' = "klines_wait"
            /\ UNCHANGED <<result, slept, last_attempt, all_klines, all_funding, all_oi,
                           funding_rates, current_start>>
       ELSE /\ AfterKlines(all_klines, slept)
            /\ UNCHANGED <<inflight, last_req, attempts>>
  /\ UNCHANGED <<assets_df, idx, cg_depth, all_records, hv_data, last_resp, hv_hist>>

\* Lines 187-208 and the except clause 249-251.
KlinesResponse ==
  /\ UNCHANGED <<engine_vars, adapter_vars, function_vars, page_vars>>
  /\ pc = "klines_wait"
  /\ \E resp \in PageResponses(KLINES_LIMIT, all_klines) :
       LET o == PageStep(resp, all_klines, current_start, KLINES_LIMIT, KLINES_STEP)
       IN /\ Receive(resp)
          /\ CASE o.ctl = "loop" ->
                    /\ pc' = "klines_head"
                    /\ slept' = o.sl
                    /\ all_klines' = o.rows
                    /\ current_start' = o.cursor
                    /\ UNCHANGED <<result, last_attempt, attempt_open, all_funding,
                                   all_oi, funding_rates>>
               [] o.ctl = "break" -> AfterKlines(o.rows, o.sl)
               [] o.ctl = "fail" -> BinanceReturn(None, o.sl)
  /\ UNCHANGED <<assets_df, idx, cg_depth, all_records, hv_data, hv_hist>>

(* -------------------- fetch_binance_funding_rates --------------------- *)
\* Lines 306-323: the function returns the rows aggregated by day, or None
\* when it has none or has failed; then fetch_binance_open_interest is
\* entered (lines 231-233, 338-350), its cursor at start_time.
AfterFunding(n, failed, sl) ==
  /\ funding_rates' = IF ~failed /\ n > 0 THEN FundingFrame ELSE None
  /\ pc' = "oi_head"
  /\ slept' = sl
  /\ all_funding' = 0
  /\ current_start' = START_TIME

\* Lines 272-280.
FundingRequest ==
  /\ UNCHANGED <<engine_vars, adapter_vars, function_vars, page_vars>>
  /\ pc = "funding_head"
  /\ IF current_start < END_TIME
       THEN /\ Send("funding", "binance", current_start, FUNDING_LIMIT)
            /\ pc' = "funding_wait"
            /\ UNCHANGED <<funding_rates, slept, all_funding, current_start>>
       ELSE /\ AfterFunding(all_funding, FALSE, slept)
            /\ UNCHANGED <<inflight, last_req, attempts, attempt_open>>
  /\ UNCHANGED <<assets_df, idx, cg_depth, all_klines, all_oi, result, all_records,
                 hv_data, last_resp, last_attempt, hv_hist>>

\* Lines 282-304 and 321-323.
FundingResponse ==
  /\ UNCHANGED <<engine_vars, adapter_vars, function_vars, page_vars>>
  /\ pc = "funding_wait"
  /\ \E resp \in PageResponses(FUNDING_LIMIT, all_funding) :
       LET o == PageStep(resp, all_funding, current_start, FUNDING_LIMIT, FUNDING_STEP)
       IN /\ Receive(resp)
          /\ IF o.ctl = "loop"
               THEN /\ pc' = "funding_head"
                    /\ slept' = o.sl
                    /\ all_funding' = o.rows
                    /\ current_start' = o.cursor
                    /\ UNCHANGED funding_rates
               ELSE AfterFunding(o.rows, o.ctl = "fail", o.sl)
  /\ UNCHANGED <<assets_df, idx, cg_depth, all_klines, all_oi, result, all_records,
                 hv_data, attempt_open, last_attempt, hv_hist>>

(* -------------------- fetch_binance_open_interest --------------------- *)
\* Mutant of AfterOi: a failed open-interest fetch fails the whole adapter.
AfterOi_FailPrimary(n, failed, sl) ==
  LET open_interest == IF ~failed /\ n > 0 THEN OiFrame ELSE None
      merged == MergeLeft(MergeLeft(KlinesFrame(all_klines), funding_rates), open_interest)
  IN BinanceReturn(IF failed THEN None ELSE merged, sl)

\* Lines 380-392, then lines 235-247 of fetch_binance_futures_data: the
\* auxiliary frames that are not None are merged onto the klines frame,
\* which is returned to collect_asset_data.
AfterOi(n, failed, sl) ==
  LET open_interest == IF ~failed /\ n > 0 THEN OiFrame ELSE None
      merged == MergeLeft(MergeLeft(KlinesFrame(all_klines), funding_rates), open_interest)
  IN BinanceReturn(merged, sl)

\* Lines 352-355.
OiRequest ==
  /\ UNCHANGED <<engine_vars, adapter_vars, function_vars, page_vars>>
  /\ pc = "oi_head"
  /\ IF current_start < END_TIME
       THEN /\ Send("oi", "binance", current_start, OI_LIMIT)
            /\ pc' = "oi_wait"
            /\ UNCHANGED <<result, slept, last_attempt, all_klines, all_funding, all_oi,
                           funding_rates, current_start>>
       ELSE /\ AfterOi(all_oi, FALSE, slept)
            /\ UNCHANGED <<inflight, last_req, attempts>>
  /\ UNCHANGED <<assets_df, idx, cg_depth, all_records, hv_data, last_resp, hv_hist>>

\* Lines 357-378 and 390-392.
OiResponse ==
  /\ UNCHANGED <<engine_vars, adapter_vars, function_vars, page_vars>>
  /\ pc = "oi_wait"
  /\ \E resp \in PageResponses(OI_LIMIT, all_oi) :
       LET o == PageStep(resp, all_oi, current_start, OI_LIMIT, OI_STEP)
       IN /\ Receive(resp)
          /\ IF o.ctl = "loop"
               THEN /\ pc' = "oi_head"
                    /\ slept' = o.sl
                    /\ all_oi' = o.rows
                    /\ current_start' = o.cursor
                    /\ UNCHANGED <<result, last_attempt, attempt_open, all_klines,
                                   all_funding, funding_rates>>
               ELSE AfterOi(o.rows, o.ctl = "fail", o.sl)
  /\ UNCHANGED <<assets_df, idx, cg_depth, all_records, hv_data, hv_hist>>

(* ---------------------- fetch_kraken_options_iv ----------------------- *)
\* Lines 425-437: a symbol outside the pair table returns None unrequested.
KrakenRequest ==
  /\ UNCHANGED <<engine_vars, adapter_vars, function_vars, page_vars>>
  /\ pc = "kr_call"
  /\ IF result.symbol \in kraken_pairs
       THEN /\ Send("kraken", "kraken", START_TIME, 0)
            /\ pc' = "kr_wait"
            /\ UNCHANGED <<result, slept, last_attempt>>
       ELSE /\ AfterKraken(None, slept)
            /\ UNCHANGED <<inflight, last_req, attempts, attempt_open>>
  /\ UNCHANGED <<assets_df, idx, cg_depth, current_start, all_klines, all_funding,
                 all_oi, funding_rates, all_records, hv_data, last_resp, hv_hist>>

\* Lines 439-467.  Of the n rows of a well-formed payload, `kept` are inside
\* [start_date, end_date] and survive the filter of line 454.
KrakenResponse ==
  /\ UNCHANGED <<engine_vars, adapter_vars, function_vars, page_vars>>
  /\ pc = "kr_wait"
  /\ \E resp \in SingleResponses : \E kept \in 0..resp.n :
       /\ Receive(resp)
       /\ AfterKraken(IF resp.status = "200" THEN KrakenFrame(kept) ELSE None, <<>>)
       /\ attempt_open' = FALSE
  /\ UNCHANGED <<assets_df, idx, cg_depth, current_start, all_klines, all_funding,
                 all_oi, funding_rates, all_records, hv_data, hv_hist>>

(* -------------------------- collect_all_data -------------------------- *)
\* collect_asset_data has returned: its frame and those of the adapters are
\* gone, and with them their locals (and the history kept about them).
DropFrames ==
  /\ result' = None
  /\ cg_depth' = 0
  /\ current_start' = START_TIME
  /\ all_klines' = 0
  /\ all_funding' = 0
  /\ all_oi' = 0
  /\ funding_rates' = None
  /\ last_req' = None
  /\ last_resp' = None
  /\ attempts' = <<>>

\* Mutant of ProcessAsset: the asset's records replace those collected so far.
ProcessAsset_Overwrite ==
  /\ UNCHANGED <<engine_vars, adapter_vars, function_vars, page_vars>>
  /\ pc = "metrics"
  /\ LET hv_records == IF result.price_data # None
                         THEN TagRecords(calculate_hv_metrics(result.price_data, result.symbol),
                                         result.data_sources)
                         ELSE <<>>
     IN /\ all_records' = hv_records
        /\ hv_hist' = Append(hv_hist,
                             [outcome |-> IF result.price_data # None THEN "ok" ELSE "nodata",
                              records |-> hv_records])
  /\ idx' = idx + 1
  /\ pc' = "start"
  /\ DropFrames
  /\ UNCHANGED <<assets_df, inflight, hv_data, slept, attempt_open, last_attempt>>

\* Lines 647-662: the records of the asset are tagged and appended.
ProcessAsset ==
  /\ UNCHANGED <<engine_vars, adapter_vars, function_vars, page_vars>>
  /\ pc = "metrics"
  /\ LET hv_records == IF result.price_data # None
                         THEN TagRecords(calculate_hv_metrics(result.price_data, result.symbol),
                                         result.data_sources)
                         ELSE <<>>
     IN /\ all_records' = all_records \o hv_records
        /\ hv_hist' = Append(hv_hist,
                             [outcome |-> IF result.price_data # None THEN "ok" ELSE "nodata",
                              records |-> hv_records])
  /\ idx' = idx + 1
  /\ pc' = "start"
  /\ DropFrames
  /\ UNCHANGED <<assets_df, inflight, hv_data, slept, attempt_open, last_attempt>>

\* Lines 664-666: an exception raised while the asset's metrics are computed
\* is logged and the loop continues with the next row.
AssetError ==
  /\ UNCHANGED <<engine_vars, adapter_vars, function_vars, page_vars>>
  /\ pc = "metrics"
  /\ result.price_data # None
  /\ hv_hist' = Append(hv_hist, [outcome |-> "error", records |-> <<>>])
  /\ idx' = idx + 1
  /\ pc' = "start"
  /\ DropFrames
  /\ UNCHANGED <<assets_df, inflight, all_records, hv_data, slept, attempt_open,
                 last_attempt>>

\* Mutant of Finish: one failed asset makes the whole batch a failure.
Finish_AllOrNothing ==
  /\ UNCHANGED <<engine_vars, adapter_vars, function_vars, page_vars>>
  /\ pc = "start"
  /\ idx > NumAssets
  /\ hv_data' = IF all_records # <<>> /\ \A i \in 1..Len(hv_hist) : hv_hist[i].records # <<>>
                  THEN [df |-> SortRecords(all_records), main |-> "exported"]
                  ELSE [df |-> <<>>, main |-> "no_data"]
  /\ pc' = "done"
  /\ UNCHANGED <<assets_df, idx, cg_depth, current_start, all_klines, all_funding,
                 all_oi, funding_rates, inflight, result, all_records, slept, last_req,
                 last_resp, attempts, attempt_open, last_attempt, hv_hist>>

\* Lines 668-685 and main, lines 802-824: the sorted frame is returned and
\* exported, or an empty frame is returned and main reports "No data".
Finish ==
  /\ UNCHANGED <<engine_vars, adapter_vars, function_vars, page_vars>>
  /\ pc = "start"
  /\ idx > NumAssets
  /\ hv_data' = IF all_records # <<>>
                  THEN [df |-> SortRecords(all_records), main |-> "exported"]
                  ELSE [df |-> <<>>, main |-> "no_data"]
  /\ pc' = "done"
  /\ UNCHANGED <<assets_df, idx, cg_depth, current_start, all_klines, all_funding,
                 all_oi, funding_rates, inflight, result, all_records, slept, last_req,
                 last_resp, attempts, attempt_open, last_attempt, hv_hist>>

Next ==
  \/ StartAsset
  \/ CoinGeckoRequest
  \/ CoinGeckoResponse
  \/ KlinesRequest
  \/ KlinesResponse
  \/ FundingRequest
  \/ FundingResponse
  \/ OiRequest
  \/ OiResponse
  \/ KrakenRequest
  \/ KrakenResponse
  \/ ProcessAsset
  \/ AssetError
  \/ Finish

Spec == Init /\ [][Next]_vars

\* The run under fair scheduling: the interpreter executes the statement the
\* program is at, and requests.get returns (timeout=30 at lines 122, 185,
\* 280, 355 and 437, so a request never waits for ever).
Fairness == WF_vars(Next)

FairSpec == Init /\ [][Next]_vars /\ Fairness

(* ====================================================================== *)
(*          The volatility engines (collector and screener)               *)
(*                                                                        *)
(* Both calculate_hv_metrics functions are run on the daily observations  *)
(* of one asset.  Real arithmetic is kept symbolic: a log return is the   *)
(* pair of prices it is taken of, a standard deviation the sequence of    *)
(* returns it is taken over, an RMS blend the pair of its constituents;   *)
(* equal terms denote equal numbers.  Funding rates are integers, in      *)
(* units of 0.0001.                                                       *)
(* ====================================================================== *)
\* Longest series handed to the engines.
MaxLen == 16

\* Funding events a day and days a year, of the annualisations.
FUNDINGS_PER_DAY == 3
DAYS_PER_YEAR == 365

\* The missing-value sentinel (np.nan) and a number.
NaN == [nan |-> TRUE]
Num(x) == [num |-> x]

\* Close price of day d: the five prices of the documented scenario, then
\* further distinct prices.
ScenarioPrices == <<100, 101, 99, 102, 98>>
ClosePrice(d) == IF d <= Len(ScenarioPrices) THEN ScenarioPrices[d] ELSE 100 + d
\* Raw funding rate of day d, in units of 0.0001: missing, 0.0001, 0, -0.0002.
FundingAt(d) ==
  CASE d % 4 = 0 -> NaN
    [] d % 4 = 1 -> Num(1)
    [] d % 4 = 2 -> Num(0)
    [] OTHER -> Num(0 - 2)

Observation(d) ==
  [date |-> d, price |-> Num(ClosePrice(d)), volume |-> Num(10 * d),
   funding_rate |-> FundingAt(d), open_interest |-> Num(1000 + d),
   open_interest_value |-> Num(100000 + d)]
Series(n) == [d \in 1..n |-> Observation(d)]

\* The same days with one price throughout.
ConstantSeries(n) ==
  [d \in 1..n |-> [Observation(d) EXCEPT !.price = Num(ScenarioPrices[1])]]

\* A second series that agrees with Series(n) on the first k days: the later
\* days removed, their prices changed, the next price not numeric, or one
\* more day added.
AltSeries(n, k, how) ==
  CASE how = "remove" -> Series(k)
    [] how = "change" ->
         [d \in 1..n |-> IF d <= k THEN Observation(d)
                         ELSE [Observation(d) EXCEPT !.price = Num(ClosePrice(d) + 50),
                                                     !.funding_rate = Num(7)]]
    [] how = "spoil" ->
         [d \in 1..n |-> IF d = k + 1 THEN [Observation(d) EXCEPT !.price = NaN]
                         ELSE Observation(d)]
    [] how = "add" -> Series(n + 1)

\* The frame an adapter hands to calculate_hv_metrics: date and price
\* (CoinGecko, Kraken), with volume (Binance), and with funding_rate when the
\* funding-rate fetch delivered.
ColumnSets ==
  {{"date", "price"}, {"date", "price", "volume"},
   {"date", "price", "volume", "funding_rate"}}
PriceData(obs, columns) == [columns |-> columns, rows |-> obs]

(* ----------------- hv_collector.py calculate_hv_metrics --------------- *)
RECURSIVE InsertByDate(_, _)
InsertByDate(r, sorted) ==
  IF sorted = <<>> THEN <<r>>
  ELSE IF Head(sorted).date <= r.date THEN <<Head(sorted)>> \o InsertByDate(r, Tail(sorted))
  ELSE <<r>> \o sorted

\* sort_values('date').
RECURSIVE SortByDate(_)
SortByDate(rows) ==
  IF rows = <<>> THEN <<>>
  ELSE InsertByDate(rows[Len(rows)], SortByDate(SubSeq(rows, 1, Len(rows) - 1)))

\* pd.to_numeric(errors='coerce') and dropna(subset=['price']).
DropNaPrice(rows) == LET numeric(r) == r.price # NaN IN SelectSeq(rows, numeric)

\* price_data[price_data['date'] <= date]
DatedUpTo(rows, date) == LET upto(r) == r.date <= date IN SelectSeq(rows, upto)

\* .tail(n)
TailRows(rows, n) ==
  IF Len(rows) <= n THEN rows ELSE SubSeq(rows, Len(rows) - n + 1, Len(rows))

\* np.log(prices / prices.shift(1)): ln(b / a), missing for the first row.
\* The quotient of equal prices is 1.0 and its logarithm 0.0, exactly.
LogReturn(a, b) ==
  IF a = NaN \/ b = NaN THEN NaN
  ELSE IF a = b THEN Num(0)
  ELSE [ln |-> <<b.num, a.num>>]
LogReturns(prices) ==
  [i \in 1..Len(prices) |-> IF i = 1 THEN NaN ELSE LogReturn(prices[i - 1], prices[i])]

\* Mutant of StdAnnualized: a small constant is added under the root.
StdAnnualized_Epsilon(returns) ==
  LET present(r) == r # NaN
      valid == SelectSeq(returns, present)
  IN IF Len(valid) < 2 THEN NaN
     ELSE [std |-> valid, per_year |-> DAYS_PER_YEAR, epsilon |-> TRUE]

\* Series.std() * sqrt(365): sample standard deviation of the values that
\* are not missing, missing itself when fewer than two are left.  Of zeros
\* only, the mean, the deviations and the result are 0.0 exactly.
StdAnnualized(returns) ==
  LET present(r) == r # NaN
      valid == SelectSeq(returns, present)
  IN IF Len(valid) < 2 THEN NaN
     ELSE IF \A i \in 1..Len(valid) : valid[i] = Num(0) THEN Num(0)
     ELSE [std |-> valid, per_year |-> DAYS_PER_YEAR]

calculate_historical_volatility(prices) ==
  IF Len(prices) < 2 THEN NaN ELSE StdAnnualized(LogReturns(prices))

windows == <<7, 14, 30, 60, 90>>
HvField(w) ==
  CASE w = 7 -> "hv_7d" [] w = 14 -> "hv_14d" [] w = 30 -> "hv_30d"
    [] w = 60 -> "hv_60d" [] w = 90 -> "hv_90d"

Max(a, b) == IF a >= b THEN a ELSE b
Min(a, b) == IF a <= b THEN a ELSE b
NoFields == [f \in {} |-> NaN]

ParkinsonField(w) ==
  CASE w = 7 -> "parkinson_vol_7d" [] w = 14 -> "parkinson_vol_14d"
    [] w = 30 -> "parkinson_vol_30d" [] w = 60 -> "parkinson_vol_60d"
    [] w = 90 -> "parkinson_vol_90d"

\* row.get(column, np.nan)
RowGet(row, column) == IF column \in DOMAIN row THEN row[column] ELSE NaN

Inf == [inf |-> TRUE]

\* High and low prices a row may carry.
HighLowValues == {0 - 1, 0, 1, 2}

\* np.log(high / low) ** 2 of one row of float columns.  Dividing by zero
\* gives +-inf (nan for 0/0) and the logarithm of a negative number nan,
\* with a warning and no exception; log(0) is -inf and its square inf.
LogSquared(high, low) ==
  IF low = 0 THEN (IF high > 0 THEN Inf ELSE NaN)
  ELSE IF high = 0 THEN Inf
  ELSE IF (high > 0) = (low > 0) THEN [ln2 |-> <<high, low>>]
  ELSE NaN

\* Lines 611-625.  Series.mean() skips nan terms and is nan when none is
\* left; an infinite term makes the mean, and the result, infinite.
calculate_parkinson_volatility(data) ==
  IF "high" \notin data.columns \/ "low" \notin data.columns THEN NaN
  ELSE
    LET hl_ratio == [i \in 1..Len(data.rows) |->
                       LogSquared(data.rows[i].high, data.rows[i].low)]
        present(x) == x # NaN
        valid == SelectSeq(hl_ratio, present)
    IN IF valid = <<>> THEN NaN
       ELSE IF \E i \in 1..Len(valid) : valid[i] = Inf THEN Inf
       ELSE [parkinson |-> valid, per_year |-> DAYS_PER_YEAR]

\* Lines 581-594: the Parkinson field of one window of one record.  With
\* enough rows the field is written when the slice has high and low columns;
\* without, it is written, undefined, when the series has a volume column.
WindowParkinson(price_data, rows, date, window) ==
  LET historical_data == TailRows(DatedUpTo(rows, date), window)
  IN IF Len(historical_data) >= Max(2, window \div 2)
       THEN IF "high" \in price_data.columns /\ "low" \in price_data.columns
              THEN ParkinsonField(window) :>
                     calculate_parkinson_volatility(
                       [columns |-> price_data.columns, rows |-> historical_data])
              ELSE NoFields
       ELSE IF "volume" \in price_data.columns
              THEN ParkinsonField(window) :> NaN
              ELSE NoFields

\* The Parkinson fields of one record, of the windows from the j-th on.
RECURSIVE ParkinsonFields(_, _, _, _)
ParkinsonFields(price_data, rows, date, j) ==
  IF j > Len(windows) THEN NoFields
  ELSE WindowParkinson(price_data, rows, date, windows[j])
       @@ ParkinsonFields(price_data, rows, date, j + 1)

\* Mutant of WindowHv: the slice is the last rows of the whole series.
WindowHv_WholeSeries(rows, date, window) ==
  LET historical_data == TailRows(rows, window)
  IN IF Len(historical_data) >= Max(2, window \div 2)
       THEN calculate_historical_volatility([i \in 1..Len(historical_data) |->
                                               historical_data[i].price])
       ELSE NaN

\* Lines 581-592: the HV of one window at one date.
WindowHv(rows, date, window) ==
  LET historical_data == TailRows(DatedUpTo(rows, date), window)
  IN IF Len(historical_data) >= Max(2, window \div 2)
       THEN calculate_historical_volatility([i \in 1..Len(historical_data) |->
                                               historical_data[i].price])
       ELSE NaN

\* row['funding_rate'] * 3 * 365, of a number or of a daily mean.
Annualized(rate) ==
  IF "num" \in DOMAIN rate THEN Num(rate.num * FUNDINGS_PER_DAY * DAYS_PER_YEAR)
  ELSE [annualized |-> rate]

\* Mutant of FundingFields: a missing funding rate is annualised as zero.
FundingFields_ZeroDefault(row, has_funding) ==
  IF ~has_funding THEN NoFields
  ELSE IF row.funding_rate # NaN
    THEN [funding_rate |-> row.funding_rate,
          annualized_funding_rate |->
            Num(row.funding_rate.num * FUNDINGS_PER_DAY * DAYS_PER_YEAR)]
  ELSE [funding_rate |-> NaN, annualized_funding_rate |-> Num(0)]

\* Lines 562-565: the volume fields of one record.
VolumeFields(row, has_volume) ==
  IF has_volume
    THEN [volume |-> RowGet(row, "volume"), quote_volume |-> RowGet(row, "quote_volume"),
          trades |-> RowGet(row, "trades")]
    ELSE NoFields

\* Lines 574-576: the open-interest fields of one record.
OiFields(row, has_oi) ==
  IF has_oi
    THEN [open_interest |-> RowGet(row, "open_interest"),
          open_interest_value |-> RowGet(row, "open_interest_value")]
    ELSE NoFields

\* Lines 568-572: the funding fields of one record.
FundingFields(row, has_funding) ==
  IF ~has_funding THEN NoFields
  ELSE IF row.funding_rate # NaN
    THEN [funding_rate |-> row.funding_rate,
          annualized_funding_rate |-> Annualized(row.funding_rate)]
  ELSE [funding_rate |-> NaN]

\* calculate_hv_metrics of the collector, on the rows themselves.
collector_calculate_hv_metrics(price_data, symbol) ==
  IF price_data = None \/ Len(price_data.rows) < 2 THEN <<>>
  ELSE
    LET rows == DropNaPrice(SortByDate(price_data.rows))
        has_funding == "funding_rate" \in price_data.columns
        has_oi == "open_interest" \in price_data.columns
        has_volume == "volume" \in price_data.columns
    IN [i \in 1..Len(rows) |->
          [symbol |-> symbol, date |-> rows[i].date, close_price |-> rows[i].price]
          @@ VolumeFields(rows[i], has_volume)
          @@ FundingFields(rows[i], has_funding)
          @@ OiFields(rows[i], has_oi)
          @@ ParkinsonFields(price_data, rows, rows[i].date, 1)
          @@ [f \in {HvField(windows[j]) : j \in 1..Len(windows)} |->
                LET w == CHOOSE x \in {windows[j] : j \in 1..Len(windows)} : HvField(x) = f
                IN WindowHv(rows, rows[i].date, w)]]

(* ------------- hv_screener_enhanced.py, per selected asset ------------ *)
\* get_crypto_data_coingecko, from the merge on: the volume is the provider's
\* when the payload has total_volumes and 0 when it has not; rows without a
\* close price are dropped.
get_crypto_data_coingecko(data) ==
  LET priced == DropNaPrice(data.rows)
  IN [columns |-> {"close", "volume"},
      rows |-> [i \in 1..Len(priced) |->
                  [date |-> priced[i].date, close |-> priced[i].price,
                   volume |-> IF "volume" \in data.columns THEN priced[i].volume
                              ELSE Num(0)]]]

EmptyFrame == [columns |-> {}, rows |-> <<>>]
Empty(frame) == Len(frame.rows) = 0

WindowChoices == {2, 3, 7, 14}
HvColumn(w) ==
  CASE w = 2 -> "hv_2" [] w = 3 -> "hv_3" [] w = 7 -> "hv_7" [] w = 14 -> "hv_14"
SetMax(S) == CHOOSE x \in S : \A y \in S : y <= x
SetMin(S) == CHOOSE x \in S : \A y \in S : x <= y

\* Series.rolling(window=w).std() * annual_factor at row i: missing unless
\* the w rows ending at i all carry a value.
RollingStd(log_ret, i, w) ==
  IF i < w THEN NaN
  ELSE LET win == SubSeq(log_ret, i - w + 1, i)
       IN IF \E j \in 1..w : win[j] = NaN THEN NaN ELSE StdAnnualized(win)

\* np.sqrt((a**2 + b**2) / 2)
Rms(a, b) == IF a = NaN \/ b = NaN THEN NaN ELSE [rms |-> <<a, b>>]

\* Mutant of RmsColumns: the 7-14 blend is taken of the 2 and 3 day values
\* when those are configured too.
RmsColumns_WrongPair(hv, windows_cfg) ==
  (IF 2 \in windows_cfg /\ 3 \in windows_cfg
     THEN [rms_2_3 |-> Rms(hv.hv_2, hv.hv_3)] ELSE NoFields)
  @@ (IF 7 \in windows_cfg /\ 14 \in windows_cfg
        THEN [rms_7_14 |-> IF 2 \in windows_cfg /\ 3 \in windows_cfg
                             THEN Rms(hv.hv_2, hv.hv_3) ELSE Rms(hv.hv_7, hv.hv_14)]
        ELSE NoFields)

\* Lines 286-290: the blend columns of one row.
RmsColumns(hv, windows_cfg) ==
  (IF 2 \in windows_cfg /\ 3 \in windows_cfg
     THEN [rms_2_3 |-> Rms(hv.hv_2, hv.hv_3)] ELSE NoFields)
  @@ (IF 7 \in windows_cfg /\ 14 \in windows_cfg
        THEN [rms_7_14 |-> Rms(hv.hv_7, hv.hv_14)] ELSE NoFields)

\* Mutant of RepresentativeRms: the (2,3) pair is preferred.
RepresentativeRms_Prefer23(rms) ==
  IF "rms_2_3" \in DOMAIN rms THEN rms.rms_2_3
  ELSE IF "rms_7_14" \in DOMAIN rms THEN rms.rms_7_14
  ELSE NaN

\* Lines 293-298: rms_vol.
RepresentativeRms(rms) ==
  IF "rms_7_14" \in DOMAIN rms THEN rms.rms_7_14
  ELSE IF "rms_2_3" \in DOMAIN rms THEN rms.rms_2_3
  ELSE NaN

\* Lines 273-298: the frame with its computed columns, before dropna.
HvFrame(df, windows_cfg) ==
  LET n == Len(df.rows)
      log_ret == [j \in 1..n |-> IF j = 1 THEN NaN
                                 ELSE LogReturn(df.rows[j - 1].close, df.rows[j].close)]
      hv(i) == [f \in {HvColumn(w) : w \in windows_cfg} |->
                  RollingStd(log_ret, i, CHOOSE w \in windows_cfg : HvColumn(w) = f)]
      row(i) == LET rms == RmsColumns(hv(i), windows_cfg)
                IN df.rows[i] @@ [log_ret |-> log_ret[i]] @@ hv(i) @@ rms
                   @@ [rms_vol |-> RepresentativeRms(rms)]
  IN [columns |-> (DOMAIN row(1)) \ {"date"}, rows |-> [i \in 1..n |-> row(i)]]

\* Mutant of DropNa: only the HV columns are looked at.
DropNa_HvOnly(frame) ==
  LET hv_columns == frame.columns \cap {HvColumn(w) : w \in WindowChoices}
      complete(r) == \A c \in hv_columns : r[c] # NaN
  IN [columns |-> frame.columns, rows |-> SelectSeq(frame.rows, complete)]

\* DataFrame.dropna(): the rows without a missing value in a column (date
\* is the index).
DropNa(frame) ==
  LET complete(r) == \A c \in frame.columns : r[c] # NaN
  IN [columns |-> frame.columns, rows |-> SelectSeq(frame.rows, complete)]

\* calculate_hv_metrics of the screener.
screener_calculate_hv_metrics(df, windows_cfg) ==
  IF df = None \/ Empty(df) THEN EmptyFrame
  ELSE IF Len(df.rows) < SetMax(windows_cfg) + 1 THEN EmptyFrame
  ELSE DropNa(HvFrame(df, windows_cfg))

\* The default of a dictionary lookup that found no column: 0 in the metric
\* row, 0.5 in the pricer.
ZeroDefault == Num(0)
HalfDefault == [half |-> TRUE]
Get(row, column, default) == IF column \in DOMAIN row THEN row[column] ELSE default

\* Lines 568-611 and 810: the latest row's values as displayed, and the
\* pricer's volatility input.  The tenors are the sidebar's default choice.
MetricsRow(frame, windows_cfg) ==
  LET latest == frame.rows[Len(frame.rows)]
      tenor1 == SetMin(windows_cfg)
      tenor2 == IF Cardinality(windows_cfg) >= 2
                  THEN SetMin(windows_cfg \ {tenor1}) ELSE tenor1
  IN [rms_714 |-> Get(latest, "rms_7_14", ZeroDefault),
      rms_23 |-> Get(latest, "rms_2_3", ZeroDefault),
      hv_short |-> Get(latest, HvColumn(tenor1), ZeroDefault),
      hv_long |-> Get(latest, HvColumn(tenor2), ZeroDefault),
      vol_input |-> Get(latest, "rms_7_14", Get(latest, "rms_vol", HalfDefault))]

(* ------------------------ running the engines ------------------------- *)
\* The acquisition pipeline, not started.
PipelineIdle ==
  /\ assets_df = <<>>
  /\ idx = 1
  /\ pc = "idle"
  /\ cg_depth = 0
  /\ current_start = START_TIME
  /\ all_klines = 0
  /\ all_funding = 0
  /\ all_oi = 0
  /\ funding_rates = None
  /\ inflight = None
  /\ result = None
  /\ all_records = <<>>
  /\ hv_data = None
  /\ slept = <<>>
  /\ last_req = None
  /\ last_resp = None
  /\ attempts = <<>>
  /\ attempt_open = FALSE
  /\ last_attempt = None
  /\ hv_hist = <<>>

\* The second series of a run: for every k < n one that differs from day
\* k + 1 on (the three ways taken in turn), and one with a day added.
AltWays == <<"remove", "change", "spoil">>
AltChoices(n) ==
  {<<k, AltWays[(k % 3) + 1]>> : k \in 0..(n - 1)} \cup {<<n, "add">>}

EngineInit ==
  /\ PipelineIdle
  /\ AdapterIdle
  /\ FunctionIdle
  /\ PageIdle
  /\ \E n \in 0..MaxLen, columns \in ColumnSets :
       \/ /\ observations = PriceData(Series(n), columns)
          /\ \E alt \in AltChoices(n) :
               observations_alt = PriceData(AltSeries(n, alt[1], alt[2]), columns)
       \/ /\ observations = PriceData(ConstantSeries(n), columns)
          /\ observations_alt = observations
  /\ vol_windows \in (SUBSET WindowChoices) \ {{}}
  /\ results = None
  /\ results_alt = None
  /\ processed_df = None
  /\ processed_df_alt = None
  /\ metrics_row = None
  /\ epc = "loaded"

\* The collector computes the records of both series.
CollectorMetrics ==
  /\ epc = "loaded"
  /\ results' = collector_calculate_hv_metrics(observations, "BTC")
  /\ results_alt' = collector_calculate_hv_metrics(observations_alt, "BTC")
  /\ epc' = "collected"
  /\ UNCHANGED <<observations, observations_alt, vol_windows, processed_df,
                 processed_df_alt, metrics_row>>
  /\ UNCHANGED <<pipeline_vars, adapter_vars, function_vars, page_vars>>

\* The screener fetches and computes the frame of both series (lines 550-561).
ScreenerMetrics ==
  /\ epc = "collected"
  /\ processed_df' =
       screener_calculate_hv_metrics(get_crypto_data_coingecko(observations), vol_windows)
  /\ processed_df_alt' =
       screener_calculate_hv_metrics(get_crypto_data_coingecko(observations_alt), vol_windows)
  /\ epc' = "processed"
  /\ UNCHANGED <<observations, observations_alt, vol_windows, results, results_alt,
                 metrics_row>>
  /\ UNCHANGED <<pipeline_vars, adapter_vars, function_vars, page_vars>>

\* Lines 563-565: nothing is displayed for an empty frame.
InsufficientData ==
  /\ epc = "processed"
  /\ Empty(processed_df)
  /\ epc' = "skipped"
  /\ UNCHANGED <<observations, observations_alt, vol_windows, results, results_alt,
                 processed_df, processed_df_alt, metrics_row>>
  /\ UNCHANGED <<pipeline_vars, adapter_vars, function_vars, page_vars>>

\* Lines 567-611 and 810: the metric row and the pricer input.
DisplayMetrics ==
  /\ epc = "processed"
  /\ ~Empty(processed_df)
  /\ metrics_row' = MetricsRow(processed_df, vol_windows)
  /\ epc' = "displayed"
  /\ UNCHANGED <<observations, observations_alt, vol_windows, results, results_alt,
                 processed_df, processed_df_alt>>
  /\ UNCHANGED <<pipeline_vars, adapter_vars, function_vars, page_vars>>

EngineNext ==
  \/ CollectorMetrics
  \/ ScreenerMetrics
  \/ InsufficientData
  \/ DisplayMetrics

EngineSpec == EngineInit /\ [][EngineNext]_vars

(* ====================================================================== *)
(*                 The adapters, on the rows themselves                   *)
(*                                                                        *)
(* What an adapter builds of the rows it accumulated: every row is its    *)
(* timestamp and its place in the payload.  Timestamps are ticks, OI_STEP *)
(* ticks a day.                                                           *)
(* ====================================================================== *)
\* Most rows of the two auxiliary payloads (funding rates, open interest)
\* together; a primary payload holds up to one more.
MaxPayload == 2

Seqs(S, n) == UNION {[1..k -> S] : k \in 0..n}
Ascending(stamps) == \A i \in 1..(Len(stamps) - 1) : stamps[i] <= stamps[i + 1]

\* Payloads of the three providers: the accumulated pages in the order
\* received (auxiliary rows in time order).  Kraken may return rows past
\* the requested range.
PrimaryStamps == Seqs(Times, MaxPayload + 1) \ {<<>>}
AuxStamps == {a \in Seqs(Times, MaxPayload) : Ascending(a)}
AuxPairs == {aux \in AuxStamps \X AuxStamps : Len(aux[1]) + Len(aux[2]) <= MaxPayload}
Payloads ==
  {[provider |-> "coingecko", prices |-> stamps] : stamps \in PrimaryStamps}
    \cup {[provider |-> "kraken", ohlc |-> stamps] :
            stamps \in Seqs(0..(END_TIME + 1), MaxPayload + 1) \ {<<>>}}
    \cup {[provider |-> "binance", all_klines |-> k, all_funding |-> aux[1],
            all_oi |-> aux[2]] : k \in PrimaryStamps, aux \in AuxPairs}

\* pd.DataFrame(...) with date and price: one row a payload entry.
PriceRows(stamps) == [i \in 1..Len(stamps) |-> [date |-> stamps[i], price |-> Num(i)]]

\* Lines 128-133.
coingecko_frame(prices) ==
  [columns |-> {"date", "price"}, rows |-> SortByDate(PriceRows(prices))]

\* Lines 445-457: sorted, then filtered to the date range.
kraken_frame(ohlc) ==
  LET in_range(r) == r.date >= START_TIME /\ r.date <= END_TIME
  IN [columns |-> {"date", "price"},
      rows |-> SelectSeq(SortByDate(PriceRows(ohlc)), in_range)]

\* The day a tick lies in (dt.date).
DayOf(stamp) == stamp - (stamp % OI_STEP)

\* Lines 306-319: the funding entries averaged per day, None without any.
daily_funding(funding_entries) ==
  IF funding_entries = <<>> THEN None
  ELSE
    LET days == {DayOf(funding_entries[i]) : i \in 1..Len(funding_entries)}
        of_day(day) == {i \in 1..Len(funding_entries) : DayOf(funding_entries[i]) = day}
        by_day == CHOOSE order \in [1..Cardinality(days) -> days] :
                      \A i, j \in 1..Cardinality(days) : i < j => order[i] < order[j]
    IN [columns |-> {"date", "funding_rate"},
        rows |-> [i \in 1..Cardinality(days) |->
                    [date |-> by_day[i], funding_rate |-> [mean |-> of_day(by_day[i])]]]]

\* Lines 380-388: one row an open-interest entry, None without any.
open_interest_frame(oi_entries) ==
  IF oi_entries = <<>> THEN None
  ELSE [columns |-> {"date", "open_interest", "open_interest_value"},
        rows |-> [i \in 1..Len(oi_entries) |->
                    [date |-> oi_entries[i], open_interest |-> Num(i),
                     open_interest_value |-> Num(i)]]]

\* The columns of `right` other than the key, of one row; missing for none.
RightColumns(right, row) == [c \in right.columns \ {"date"} |-> row[c]]
Unmatched(right) == [c \in right.columns \ {"date"} |-> NaN]

\* DataFrame.merge(right, on='date', how='left'): every left row, in order,
\* once with each right row of the same date, or once with missing values.
RECURSIVE MergeRows(_, _)
MergeRows(left, right) ==
  IF left = <<>> THEN <<>>
  ELSE
    LET same_date(r) == r.date = Head(left).date
        matches == SelectSeq(right.rows, same_date)
    IN (IF matches = <<>> THEN <<Head(left) @@ Unmatched(right)>>
        ELSE [j \in 1..Len(matches) |-> Head(left) @@ RightColumns(right, matches[j])])
       \o MergeRows(Tail(left), right)

\* Lines 238-242: the merge is skipped for a frame that is None.
MergeOnDate(left, right) ==
  IF right = None THEN left
  ELSE [columns |-> left.columns \cup right.columns, rows |-> MergeRows(left.rows, right)]

\* Lines 215-225: one row a kline, with the columns the adapter converts.
KlineRows(klines) ==
  [i \in 1..Len(klines) |->
     [date |-> klines[i], price |-> Num(i), volume |-> Num(10 * i),
      quote_volume |-> Num(100 * i), trades |-> Num(1000 * i)]]

KlineColumns == {"date", "price", "volume", "quote_volume", "trades"}

\* Mutant of binance_frame: the high and low columns of the klines are kept.
binance_frame_KeepHighLow(klines, funding_entries, oi_entries) ==
  IF klines = <<>> THEN None
  ELSE
    LET df == [columns |-> KlineColumns \cup {"high", "low"},
               rows |-> [i \in 1..Len(klines) |->
                           KlineRows(klines)[i] @@ [high |-> 2, low |-> 1]]]
        merged == MergeOnDate(MergeOnDate(df, daily_funding(funding_entries)),
                              open_interest_frame(oi_entries))
    IN [columns |-> merged.columns, rows |-> SortByDate(merged.rows)]

\* Lines 210-247.
binance_frame(klines, funding_entries, oi_entries) ==
  IF klines = <<>> THEN None
  ELSE
    LET df == [columns |-> KlineColumns, rows |-> KlineRows(klines)]
        merged == MergeOnDate(MergeOnDate(df, daily_funding(funding_entries)),
                              open_interest_frame(oi_entries))
    IN [columns |-> merged.columns, rows |-> SortByDate(merged.rows)]

AdapterInit ==
  /\ PipelineIdle
  /\ EngineIdle
  /\ FunctionIdle
  /\ PageIdle
  /\ payload \in Payloads
  /\ series_out = None
  /\ records_out = None
  /\ apc = "fetched"

CoinGeckoReturn ==
  /\ apc = "fetched"
  /\ payload.provider = "coingecko"
  /\ series_out' = coingecko_frame(payload.prices)
  /\ apc' = "returned"
  /\ UNCHANGED <<payload, records_out, pipeline_vars, engine_vars, function_vars, page_vars>>

BinanceFrameReturn ==
  /\ apc = "fetched"
  /\ payload.provider = "binance"
  /\ series_out' = binance_frame(payload.all_klines, payload.all_funding, payload.all_oi)
  /\ apc' = "returned"
  /\ UNCHANGED <<payload, records_out, pipeline_vars, engine_vars, function_vars, page_vars>>

KrakenReturn ==
  /\ apc = "fetched"
  /\ payload.provider = "kraken"
  /\ series_out' = kraken_frame(payload.ohlc)
  /\ apc' = "returned"
  /\ UNCHANGED <<payload, records_out, pipeline_vars, engine_vars, function_vars, page_vars>>

\* collect_asset_data accepts the series (lines 496, 505, 514) and
\* collect_all_data hands it to calculate_hv_metrics (lines 647-651).
AdapterMetrics ==
  /\ apc = "returned"
  /\ series_out # None
  /\ Len(series_out.rows) > 0
  /\ records_out' = collector_calculate_hv_metrics(series_out, "BTC")
  /\ apc' = "computed"
  /\ UNCHANGED <<payload, series_out, pipeline_vars, engine_vars, function_vars, page_vars>>

AdapterNext ==
  \/ CoinGeckoReturn
  \/ BinanceFrameReturn
  \/ KrakenReturn
  \/ AdapterMetrics

AdapterSpec == AdapterInit /\ [][AdapterNext]_vars

(* ====================================================================== *)
(*                    Functions that keep no state                        *)
(*                                                                        *)
(* calculate_parkinson_volatility (collector), black_scholes (screener)   *)
(* and generate_summary_stats (collector), each called once on arguments  *)
(* drawn from small sets.  Floating-point results are symbolic, as in the *)
(* engines; Inf is IEEE infinity.                                         *)
(* ====================================================================== *)
\* Most rows of the slice handed to calculate_parkinson_volatility.
MaxSlice == 2

\* The slices: every choice of the two columns, one to MaxSlice rows.
ParkinsonSlices ==
  UNION {{[columns |-> columns, rows |-> rows] :
            rows \in UNION {[1..n -> [columns -> HighLowValues]] : n \in 1..MaxSlice}} :
           columns \in SUBSET {"high", "low"}}

\* black_scholes' return value of the degenerate case.
Zeros == [price |-> 0, delta |-> 0, gamma |-> 0, theta |-> 0, vega |-> 0]

\* Lines 324-344: price and Greeks by the closed form.  S / K is evaluated
\* first; for Python floats a zero strike raises ZeroDivisionError.
ClosedForm(S, K, T, r, sigma, option_type) ==
  IF K = 0 THEN [raises |-> "ZeroDivisionError"]
  ELSE [closed_form |-> <<S, K, T, r, sigma>>,
        side |-> IF option_type = "call" THEN "call" ELSE "put"]

\* Mutant of black_scholes: only negative values are degenerate.
black_scholes_StrictGuard(S, K, T, r, sigma, option_type) ==
  IF T < 0 \/ sigma < 0 THEN Zeros
  ELSE ClosedForm(S, K, T, r, sigma, option_type)

\* Lines 306-344.
black_scholes(S, K, T, r, sigma, option_type) ==
  IF T <= 0 \/ sigma <= 0 THEN Zeros
  ELSE ClosedForm(S, K, T, r, sigma, option_type)

\* Arguments of black_scholes: spot and strike, years to expiry, rate and
\* volatility in percent.
PricerArgs ==
  [S : {0, 100}, K : {0, 100}, T : {0 - 1, 0, 1}, r : {0, 5},
   sigma : {0 - 1, 0, 30}, option_type : {"call", "put"}]

\* pd.DataFrame(all_records): the columns are the keys of all the records,
\* and a record without a key has the missing value in that column.
DataFrameOf(records) ==
  LET columns == UNION {DOMAIN records[i] : i \in 1..Len(records)}
  IN [columns |-> columns,
      rows |-> [i \in 1..Len(records) |-> [c \in columns |-> RowGet(records[i], c)]]]

\* Series.mean(): the mean of the values that are not missing, missing
\* itself when there is none.
Mean(values) ==
  LET present(x) == x # NaN
      valid == SelectSeq(values, present)
  IN IF valid = <<>> THEN NaN ELSE [mean |-> valid]

\* df['symbol'].unique(): the symbols in order of first appearance.
RECURSIVE Unique(_)
Unique(seq) ==
  IF seq = <<>> THEN <<>>
  ELSE LET rest == Unique(SubSeq(seq, 1, Len(seq) - 1))
       IN IF \E i \in 1..Len(rest) : rest[i] = seq[Len(seq)] THEN rest
          ELSE Append(rest, seq[Len(seq)])

\* The columns generate_summary_stats averages (avg_<column>; avg_price for
\* close_price) and those it reports the last value of (current_<column>).
\* Every test is on the columns of the frame it was handed.
AveragedColumns(columns) ==
  {"close_price"}
    \cup (IF "volume" \in columns THEN {"volume", "quote_volume", "trades"} ELSE {})
    \cup (IF "funding_rate" \in columns
           THEN {"funding_rate"} \cup ({"annualized_funding_rate"} \cap columns) ELSE {})
    \cup (IF "open_interest" \in columns
           THEN {"open_interest", "open_interest_value"} ELSE {})
    \cup ({HvField(windows[j]) : j \in 1..Len(windows)} \cap columns)
    \cup ({ParkinsonField(windows[j]) : j \in 1..Len(windows)} \cap columns)
CurrentColumns(columns) ==
  (IF "funding_rate" \in columns THEN {"funding_rate"} ELSE {})
    \cup (IF "open_interest" \in columns THEN {"open_interest"} ELSE {})
    \cup ({HvField(windows[j]) : j \in 1..Len(windows)} \cap columns)

\* Lines 702-761: one record a symbol.  avg[c] is the field avg_<c> and
\* current[c] the field current_<c>; the date range and the price extremes
\* are left out.
generate_summary_stats(df) ==
  LET symbols == Unique([i \in 1..Len(df.rows) |-> df.rows[i].symbol])
      summary(symbol) ==
        LET of_symbol(r) == r.symbol = symbol
            symbol_data == SelectSeq(df.rows, of_symbol)
            column(c) == [i \in 1..Len(symbol_data) |-> symbol_data[i][c]]
        IN [symbol |-> symbol,
            data_points |-> Len(symbol_data),
            avg |-> [c \in AveragedColumns(df.columns) |-> Mean(column(c))],
            current |-> [c \in CurrentColumns(df.columns) |->
                           symbol_data[Len(symbol_data)][c]],
            data_sources |-> symbol_data[1].data_sources]
  IN [i \in 1..Len(symbols) |-> summary(symbols[i])]

\* The series of a batch: Binance series with and without the auxiliary
\* columns, and series of the two providers that give date and price only.
BatchColumnSets ==
  ColumnSets
    \cup {{"date", "price", "volume", "open_interest", "open_interest_value"},
          {"date", "price", "volume", "funding_rate", "open_interest",
           "open_interest_value"}}

\* Lines 649-660: the records of one asset, tagged with their source.
AssetRecords(asset) ==
  LET hv_records == collector_calculate_hv_metrics(
                      PriceData(Series(asset.n), asset.columns), asset.symbol)
      data_sources == IF "volume" \in asset.columns THEN "binance" ELSE "coingecko"
  IN [i \in 1..Len(hv_records) |-> hv_records[i] @@ [data_sources |-> data_sources]]

\* Lines 668-682: all_records of a batch as the sorted frame main hands to
\* generate_summary_stats.
RECURSIVE AllRecords(_)
AllRecords(batch) ==
  IF batch = <<>> THEN <<>>
  ELSE AllRecords(SubSeq(batch, 1, Len(batch) - 1)) \o AssetRecords(batch[Len(batch)])
BatchFrame(batch) == DataFrameOf(SortRecords(AllRecords(batch)))

\* Batches of one or two assets, each of MaxSlice or MaxSlice + 1 days.
Batches ==
  LET asset(symbol) == [symbol : {symbol}, columns : BatchColumnSets,
                        n : MaxSlice..(MaxSlice + 1)]
  IN {<<a>> : a \in asset("ETH")}
       \cup {<<a, b>> : a \in asset("ETH"), b \in asset("BTC")}

FunctionCalls ==
  {[fn |-> "calculate_parkinson_volatility", data |-> d] : d \in ParkinsonSlices}
    \cup {[fn |-> "black_scholes", args |-> a] : a \in PricerArgs}
    \cup {[fn |-> "generate_summary_stats", batch |-> b] : b \in Batches}

FunctionInit ==
  /\ PipelineIdle
  /\ EngineIdle
  /\ AdapterIdle
  /\ PageIdle
  /\ call \in FunctionCalls
  /\ ret = None
  /\ fpc = "called"

ParkinsonReturn ==
  /\ fpc = "called"
  /\ call.fn = "calculate_parkinson_volatility"
  /\ ret' = calculate_parkinson_volatility(call.data)
  /\ fpc' = "returned"
  /\ UNCHANGED <<call, pipeline_vars, engine_vars, adapter_vars, page_vars>>

BlackScholesReturn ==
  /\ fpc = "called"
  /\ call.fn = "black_scholes"
  /\ ret' = black_scholes(call.args.S, call.args.K, call.args.T, call.args.r,
                          call.args.sigma, call.args.option_type)
  /\ fpc' = "returned"
  /\ UNCHANGED <<call, pipeline_vars, engine_vars, adapter_vars, page_vars>>

\* main, lines 803-810: the summary of a batch that is not empty.
SummaryReturn ==
  /\ fpc = "called"
  /\ call.fn = "generate_summary_stats"
  /\ ret' = generate_summary_stats(BatchFrame(call.batch))
  /\ fpc' = "returned"
  /\ UNCHANGED <<call, pipeline_vars, engine_vars, adapter_vars, page_vars>>

FunctionNext ==
  \/ ParkinsonReturn
  \/ BlackScholesReturn
  \/ SummaryReturn

FunctionSpec == FunctionInit /\ [][FunctionNext]_vars

(* ====================================================================== *)
(*             A paginated fetch against the rows of a provider           *)
(*                                                                        *)
(* One of the three loops (klines, funding rate, open interest) run       *)
(* against a provider that holds rows at the timestamps of `book`.  To a  *)
(* page request the provider answers with a rate-limit status, with an    *)
(* error status, or with rows of the requested range from the cursor on,  *)
(* in ascending order: the first `limit` of them, or fewer.               *)
(* ====================================================================== *)
RECURSIVE AscendingSeq(_)
AscendingSeq(S) ==
  IF S = {} THEN <<>> ELSE <<SetMin(S)>> \o AscendingSeq(S \ {SetMin(S)})

\* The provider's rows with startTime <= timestamp <= endTime.
RowsFrom(start) == AscendingSeq({t \in book : t >= start /\ t <= END_TIME})

PageInit ==
  /\ PipelineIdle
  /\ EngineIdle
  /\ AdapterIdle
  /\ FunctionIdle
  /\ book \in SUBSET Times
  /\ page_api \in Paginated
  /\ page_start = START_TIME
  /\ fetched = <<>>
  /\ pages = <<>>
  /\ ppc = "head"

\* "while current_start < end_time": the next request, or the end.
PageLoopTest ==
  /\ ppc = "head"
  /\ ppc' = IF page_start < END_TIME THEN "wait" ELSE "done"
  /\ UNCHANGED <<book, page_api, page_start, fetched, pages>>
  /\ UNCHANGED <<pipeline_vars, engine_vars, adapter_vars, function_vars>>

\* The loop body on a response (PageStep), the accumulator extended with the
\* rows of the page.  A page is noted with its cursor and whether it was cut
\* short of the rows the provider could have given.
PageAnswer(status, data) ==
  LET resp == Resp(status, Len(data), IF data = <<>> THEN 0 ELSE data[Len(data)])
      o == PageStep(resp, Len(fetched), page_start, LimitOf(page_api), StepOf(page_api))
  IN /\ page_start' = o.cursor
     /\ fetched' = IF o.ctl = "fail" THEN <<>> ELSE fetched \o data
     /\ pages' = IF status = "200" /\ data # <<>>
                   THEN Append(pages,
                               [start |-> page_start, rows |-> data,
                                cut |-> Len(data) < Min(LimitOf(page_api),
                                                        Len(RowsFrom(page_start)))])
                   ELSE pages
     /\ ppc' = CASE o.ctl = "loop" -> "head" [] o.ctl = "break" -> "done"
                 [] OTHER -> "failed"
     /\ UNCHANGED <<book, page_api>>
     /\ UNCHANGED <<pipeline_vars, engine_vars, adapter_vars, function_vars>>

\* A success response: rows from the cursor on, at most `limit`.
PageSuccess ==
  /\ ppc = "wait"
  /\ \E n \in 0..Min(LimitOf(page_api), Len(RowsFrom(page_start))) :
       /\ n = 0 => RowsFrom(page_start) = <<>>
       /\ PageAnswer("200", SubSeq(RowsFrom(page_start), 1, n))

\* A rate-limit response: the same page is requested again.
PageRateLimited ==
  /\ ppc = "wait"
  /\ PageAnswer("429", <<>>)

\* Another status: the fetch returns None.
PageError ==
  /\ ppc = "wait"
  /\ PageAnswer("500", <<>>)

PageNext ==
  \/ PageLoopTest
  \/ PageSuccess
  \/ PageRateLimited
  \/ PageError

PageSpec == PageInit /\ [][PageNext]_vars

(* ====================================================================== *)
(*                               Claims                                   *)
(* ====================================================================== *)
Providers == <<"coingecko", "binance", "kraken">>
ProviderRank(p) == CHOOSE i \in 1..3 : Providers[i] = p
Last(seq) == seq[Len(seq)]

RECURSIVE Flatten(_)
Flatten(h) == IF h = <<>> THEN <<>> ELSE h[1].records \o Flatten(Tail(h))

Range(seq) == {seq[i] : i \in 1..Len(seq)}

\* The step receives the response to a request of one of `apis`.
ResponseStep(apis) == inflight # None /\ inflight' = None /\ inflight.api \in apis
\* The step sends a request.
RequestStep == inflight = None /\ inflight' # None

HeadPc(api) ==
  CASE api = "klines" -> "klines_head" [] api = "funding" -> "funding_head"
    [] api = "oi" -> "oi_head" [] api = "coingecko" -> "cg_call" [] api = "kraken" -> "kr_call"
WaitPc(api) ==
  CASE api = "klines" -> "klines_wait" [] api = "funding" -> "funding_wait"
    [] api = "oi" -> "oi_wait" [] api = "coingecko" -> "cg_wait" [] api = "kraken" -> "kr_wait"
RowsOf(api) ==
  CASE api = "klines" -> all_klines [] api = "funding" -> all_funding [] api = "oi" -> all_oi

C2_BatchContinues ==
  /\ \A i \in 1..Len(hv_hist) :
       hv_hist[i].outcome \in {"nodata", "error"} => hv_hist[i].records = <<>>
  /\ all_records = Flatten(hv_hist)
  /\ pc \in {"start", "done"} => Len(hv_hist) = idx - 1
  /\ pc \notin {"start", "done"} => Len(hv_hist) = idx - 1 /\ idx <= NumAssets
  /\ pc = "done" => Len(hv_hist) = NumAssets

\* C2 witness: the first row failed (NoData or an exception), the second row
\* gave records, and the batch is complete.
C2_Witness ==
  /\ pc = "done"
  /\ hv_hist[1].outcome \in {"nodata", "error"}
  /\ hv_hist[2].records # <<>>
  /\ \E i \in 1..Len(hv_hist) : hv_hist[i].outcome = "error"

\* C3: collect_all_data returns an empty frame, and main reports the failure,
\* exactly when no asset produced a record; otherwise the frame holds exactly
\* the records of the assets that produced some, however many others failed.
C3_FailureIffNoRecords ==
  pc = "done" =>
    /\ hv_data.main = "no_data" <=> \A i \in 1..Len(hv_hist) : hv_hist[i].records = <<>>
    /\ hv_data.main = "no_data" <=> hv_data.df = <<>>
    /\ Len(hv_data.df) = Len(Flatten(hv_hist))
    /\ Range(hv_data.df) = Range(Flatten(hv_hist))

\* C3 witness: a batch that ends with records of one asset while another failed.
C3_Witness ==
  /\ pc = "done"
  /\ hv_data.main = "exported"
  /\ \E i \in 1..Len(hv_hist) : hv_hist[i].outcome # "ok"
  /\ \E i \in 1..Len(hv_hist) : hv_hist[i].records # <<>>

RateLimitSleep(api) ==
  Sleep("ratelimit", IF api = "coingecko" THEN CG_RATE_SLEEP ELSE BN_RATE_SLEEP)

C6_NeverReturns ==
  [][(ResponseStep(Paginated \cup {"coingecko"}) /\ last_resp'.status = "429") =>
       /\ pc' = HeadPc(inflight.api)
       /\ attempt_open']_vars

\* C6 as amended: the three Binance loops have no retry count: after every
\* rate-limit response the loop is back at its request, nothing returned.
\* The CoinGecko retry is a nested call of the function: it is repeated
\* while the interpreter allows another nested call, and at the recursion
\* limit the fetch returns NoData and the orchestrator moves on to Binance.
C6_UnboundedButRecursion ==
  [][(ResponseStep(Paginated \cup {"coingecko"}) /\ last_resp'.status = "429") =>
       IF inflight.api = "coingecko" /\ cg_depth = RecursionLimit
         THEN /\ pc' = "klines_head"
              /\ ~attempt_open'
              /\ last_attempt' = [prov |-> "coingecko", ok |-> FALSE]
              /\ result'.price_data = None
         ELSE /\ pc' = HeadPc(inflight.api)
              /\ attempt_open'
              /\ result' = result
              /\ last_attempt' = last_attempt
              /\ inflight.api = "coingecko" => cg_depth' = cg_depth + 1]_vars

\* C6 witness: a Binance loop has retried after a rate-limit response, after
\* the CoinGecko fetch of the same asset was rate-limited.
C6_Witness ==
  /\ pc = "klines_wait"
  /\ attempts = <<"coingecko", "binance">>
  /\ last_resp # None /\ last_resp.status = "429" /\ last_resp.api = "klines"

\* C7: a paginated fetch requests the page at the cursor with the page
\* limit; a full page appends its rows, moves the cursor one step past the
\* last timestamp and returns to the while test; a short or an empty page
\* leaves the loop (the rows of a short klines page appended); the while
\* test sends a request exactly when the cursor is before the range end.
C7_Pagination ==
  /\ [][(ResponseStep(Paginated) /\ last_resp'.status = "200") =>
          \A api \in {inflight.api} :
           LET n == last_resp'.n
           IN
             /\ n = LimitOf(api) =>
                  /\ pc' = HeadPc(api)
                  /\ RowsOf(api)' = RowsOf(api) + n
                  /\ current_start' = last_resp'.last + StepOf(api)
             /\ n < LimitOf(api) =>
                  /\ pc' \notin {HeadPc(api), WaitPc(api)}
                  /\ (api = "klines" /\ pc' = "funding_head") => all_klines' = all_klines + n
                  /\ (api = "klines" /\ all_klines + n = 0) => pc' = "kr_call"
                  /\ (api = "funding") => (funding_rates' # None <=> all_funding + n > 0)]_vars
  /\ [][(\E api \in Paginated : pc = HeadPc(api)) =>
          LET api == CHOOSE a \in Paginated : pc = HeadPc(a)
          IN IF current_start < END_TIME
               THEN /\ pc' = WaitPc(api)
                    /\ inflight' = [api |-> api, startTime |-> current_start,
                                    endTime |-> END_TIME, limit |-> LimitOf(api)]
               ELSE /\ pc' \notin {HeadPc(api), WaitPc(api)}
                    /\ inflight' = None]_vars

\* C7 witness: a second open-interest page is requested, at the cursor one
\* day past the last timestamp of a full first page.
C7_Witness ==
  /\ pc = "oi_wait"
  /\ all_oi = OI_LIMIT
  /\ inflight.startTime = current_start
  /\ last_resp.status = "200" /\ last_resp.api = "oi"
  /\ current_start = last_resp.last + OI_STEP

Failures == {"500", "shape", "raise"}

\* C8: a response that is neither success nor rate-limit, a payload of the
\* wrong shape or an exception ends the fetch with None: collect_asset_data
\* goes on to the next provider (no exception reaches collect_all_data),
\* price_data stays unset whatever pages were accumulated, and a failed
\* auxiliary fetch yields no auxiliary frame.
C8_FailureIsNoData ==
  [][(ResponseStep(Paginated \cup {"coingecko", "kraken"}) /\
        \/ last_resp'.status \in Failures
        \/ inflight.api = "coingecko" /\ last_resp'.status = "200" /\ last_resp'.n = 0
        \/ inflight.api = "kraken" /\ last_resp'.status = "429") =>
       /\ idx' = idx /\ all_records' = all_records /\ hv_hist' = hv_hist
       /\ CASE inflight.api = "coingecko" ->
                 /\ pc' = "klines_head" /\ result'.price_data = None
                 /\ last_attempt' = [prov |-> "coingecko", ok |-> FALSE]
            [] inflight.api = "klines" ->
                 /\ pc' = "kr_call" /\ result'.price_data = None
                 /\ last_attempt' = [prov |-> "binance", ok |-> FALSE]
            [] inflight.api = "kraken" ->
                 /\ pc' = "metrics" /\ result'.price_data = None
                 /\ last_attempt' = [prov |-> "kraken", ok |-> FALSE]
            [] inflight.api = "funding" ->
                 /\ pc' = "oi_head" /\ funding_rates' = None
            [] inflight.api = "oi" ->
                 /\ pc' = "metrics"
                 /\ "open_interest" \notin DOMAIN result'.price_data.src]_vars

\* C8 witness: the klines fetch has failed on an error status after a full
\* page had been accumulated, and Kraken is next.
C8_Witness ==
  /\ pc = "kr_call"
  /\ last_resp # None /\ last_resp.api = "klines" /\ last_resp.status = "500"
  /\ last_req.startTime > START_TIME
  /\ result.price_data = None

KlinesColumns == {"date", "price", "volume", "quote_volume", "trades"}

\* C9: once the klines fetch has succeeded, the adapter returns a series
\* with every klines row and every klines column whatever becomes of the
\* funding-rate and open-interest fetches; the columns of a fetch that
\* failed or found nothing are absent, those of one that delivered present.
C9_AuxFailureKeepsPrimary ==
  /\ [][(ResponseStep({"funding"}) /\ pc' # "funding_head") =>
          /\ pc' = "oi_head"
          /\ all_klines' = all_klines
          /\ funding_rates' # None <=>
               (last_resp'.status = "200" /\ all_funding + last_resp'.n > 0)]_vars
  /\ [][(pc \in {"oi_head", "oi_wait"} /\ pc' \notin {"oi_head", "oi_wait"}) =>
          /\ pc' = "metrics"
          /\ result'.price_data # None
          /\ result'.price_data.rows = all_klines
          /\ result'.data_sources = <<"binance">>
          /\ KlinesColumns \subseteq DOMAIN result'.price_data.src
          /\ "funding_rate" \in DOMAIN result'.price_data.src <=> funding_rates # None
          /\ "open_interest" \in DOMAIN result'.price_data.src <=>
               (last_resp'.api = "oi" /\ last_resp'.status = "200" /\
                  all_oi + (IF inflight # None THEN last_resp'.n ELSE 0) > 0)]_vars

\* C9 witness: both auxiliary fetches failed and the klines series, of more
\* than one page, was selected without auxiliary columns.
C9_Witness ==
  /\ pc = "metrics"
  /\ last_resp # None /\ last_resp.api = "oi" /\ last_resp.status \in Failures
  /\ result.price_data # None
  /\ result.price_data.rows > KLINES_LIMIT
  /\ DOMAIN result.price_data.src = KlinesColumns

\* C10: a pacing sleep lies between the end of every provider attempt that
\* sent a request, whether it returned a series or None, and the next
\* request to any provider.
C10_PaceAfterEveryAttempt ==
  [][(RequestStep /\ ~attempt_open /\ last_attempt # None
        /\ (last_attempt.prov = "kraken" => last_attempt.ok)) =>
       \E i \in 1..Len(slept) : slept[i].why = "pace"]_vars

(* ------------------------ claims on the engines ----------------------- *)
CollectorWindows == {windows[j] : j \in 1..Len(windows)}
Ceil2(w) == (w + 1) \div 2
\* Number of observations with a numeric price dated at or before `date`.
ObservedUpTo(frame, date) == Len(DatedUpTo(DropNaPrice(frame.rows), date))
RecordsAt(recs, t) == {recs[i] : i \in {j \in 1..Len(recs) : recs[j].date = t}}
EngineDates == 1..(MaxLen + 1)

\* C11: in every record of the collector and for every window w, the HV is
\* defined when the trailing slice (the last w observations dated up to the
\* record's date) holds at least max(2, ceil(w/2)) observations, and is the
\* undefined sentinel when it holds one fewer.
C11_MinimumData ==
  results # None =>
    \A i \in 1..Len(results) : \A w \in CollectorWindows :
      LET n == Min(w, ObservedUpTo(observations, results[i].date))
          need == Max(2, Ceil2(w))
      IN /\ n >= need => results[i][HvField(w)] # NaN
         /\ n = need - 1 => results[i][HvField(w)] = NaN

\* A defined HV value that names the returns it is taken over (the exact
\* zero of a constant slice does not).
OverReturns(hv) == hv # NaN /\ hv # Num(0)

\* C12: wherever an HV value is defined it is taken over the trailing w log
\* returns ending at the record's date, or over all the returns there are
\* when fewer than w exist; this in the collector's records and in the
\* screener's frame.
C12_TrailingReturns ==
  /\ results # None =>
       \A i \in 1..Len(results) : \A w \in CollectorWindows :
         LET hv == results[i][HvField(w)]
             available == ObservedUpTo(observations, results[i].date) - 1
         IN OverReturns(hv) => Len(hv.std) = Min(w, available)
  /\ processed_df # None =>
       \A i \in 1..Len(processed_df.rows) : \A w \in vol_windows :
         LET hv == processed_df.rows[i][HvColumn(w)]
         IN OverReturns(hv) => Len(hv.std) = w

AgreeUpTo(a, b, t) == DatedUpTo(a.rows, t) = DatedUpTo(b.rows, t)
EnginesRan == epc \in {"processed", "skipped", "displayed"}

\* C13 as claimed: for two series that agree on every observation dated at
\* or before t, the records for t are the same, in the collector's output
\* and in the screener's.
C13_NoLookAhead ==
  EnginesRan =>
    \A t \in EngineDates :
      AgreeUpTo(observations, observations_alt, t) =>
        /\ RecordsAt(results, t) = RecordsAt(results_alt, t)
        /\ RecordsAt(processed_df.rows, t) = RecordsAt(processed_df_alt.rows, t)

\* C13 as amended: the same, for the collector when both series hold at
\* least two rows (a shorter series yields no record for any date); and a
\* series of one row yields no record.
C13_NoLookAheadGated ==
  EnginesRan =>
    /\ \A t \in EngineDates :
         AgreeUpTo(observations, observations_alt, t) =>
           /\ (Len(observations.rows) >= 2 /\ Len(observations_alt.rows) >= 2) =>
                RecordsAt(results, t) = RecordsAt(results_alt, t)
           /\ RecordsAt(processed_df.rows, t) = RecordsAt(processed_df_alt.rows, t)
    /\ Len(observations.rows) < 2 => results = <<>>
    /\ Len(observations.rows) >= 2 =>
         \A t \in 1..Len(observations.rows) : RecordsAt(results, t) # {}

\* C13 witness: the two series differ after a date whose record carries a
\* defined HV in the collector and a row in the screener's frame.
C13_Witness ==
  /\ EnginesRan
  /\ observations.rows # observations_alt.rows
  /\ \E t \in EngineDates :
       /\ AgreeUpTo(observations, observations_alt, t)
       /\ ~AgreeUpTo(observations, observations_alt, t + 1)
       /\ \E r \in RecordsAt(results, t) : r.hv_7d # NaN /\ r.hv_14d # NaN
       /\ RecordsAt(processed_df.rows, t) # {}
       /\ RecordsAt(processed_df_alt.rows, t) # {}

\* The screener's frame with its computed columns, before the rows with
\* missing values are dropped; empty when the series is too short.
RawDf == get_crypto_data_coingecko(observations)
LongEnough == Len(RawDf.rows) >= SetMax(vol_windows) + 1
FullFrame == IF LongEnough THEN HvFrame(RawDf, vol_windows) ELSE EmptyFrame

\* C14: for the prices 100, 101, 99, 102, 98 on five consecutive dates and
\* the window list [2], the screener returns one record a date, with hv_2
\* undefined at date index 1 and defined at date index 2 as the annualised
\* standard deviation of ln(101/100) and ln(99/101).
C14_Scenario ==
  (/\ processed_df # None
   /\ vol_windows = {2}
   /\ Len(observations.rows) = Len(ScenarioPrices)) =>
    /\ Len(processed_df.rows) = Len(ScenarioPrices)
    /\ processed_df.rows[2].hv_2 = NaN
    /\ processed_df.rows[3].hv_2 =
         [std |-> <<[ln |-> <<101, 100>>], [ln |-> <<99, 101>>]>>, per_year |-> 365]

\* C15: a value that is absent or undefined upstream is the missing-value
\* sentinel downstream, never a number: a metric of the display row whose
\* column the frame does not have, the pricer's volatility input, and the
\* volume of a payload without volumes.
C15_NoDefaultNumbers ==
  /\ metrics_row # None =>
       LET latest == processed_df.rows[Len(processed_df.rows)]
       IN /\ metrics_row.rms_714 = Get(latest, "rms_7_14", NaN)
          /\ metrics_row.rms_23 = Get(latest, "rms_2_3", NaN)
          /\ metrics_row.vol_input \notin {ZeroDefault, HalfDefault}
  /\ (processed_df # None /\ "volume" \notin observations.columns) =>
       \A i \in 1..Len(processed_df.rows) : processed_df.rows[i].volume = NaN

\* C18: the blend column of a pair exists exactly when both windows of the
\* pair are configured; on every date it is the RMS of the pair's two HV
\* values when both are defined and undefined when either is undefined, in
\* the computed frame and in the returned one.
C18_RmsBlend ==
  processed_df # None =>
    \A frame \in {FullFrame, processed_df} : \A i \in 1..Len(frame.rows) :
      LET r == frame.rows[i]
      IN /\ "rms_2_3" \in DOMAIN r <=> {2, 3} \subseteq vol_windows
         /\ "rms_7_14" \in DOMAIN r <=> {7, 14} \subseteq vol_windows
         /\ "rms_2_3" \in DOMAIN r =>
              r.rms_2_3 = IF r.hv_2 # NaN /\ r.hv_3 # NaN
                            THEN [rms |-> <<r.hv_2, r.hv_3>>] ELSE NaN
         /\ "rms_7_14" \in DOMAIN r =>
              r.rms_7_14 = IF r.hv_7 # NaN /\ r.hv_14 # NaN
                             THEN [rms |-> <<r.hv_7, r.hv_14>>] ELSE NaN

\* C18 witness: all four windows configured, and the returned frame has a
\* row with both blends defined while the computed frame has a row where
\* the 2-3 blend is defined and the 7-14 blend is not.
C18_Witness ==
  /\ processed_df # None
  /\ vol_windows = {2, 3, 7, 14}
  /\ \E i \in 1..Len(processed_df.rows) :
       /\ processed_df.rows[i].rms_2_3 # NaN
       /\ processed_df.rows[i].rms_7_14 # NaN
  /\ \E i \in 1..Len(FullFrame.rows) :
       /\ FullFrame.rows[i].rms_2_3 # NaN
       /\ FullFrame.rows[i].hv_14 = NaN
       /\ FullFrame.rows[i].rms_7_14 = NaN

\* C19: rms_vol is rms_7_14 whenever 7 and 14 are both configured, rms_2_3
\* when only the pair (2, 3) is, and undefined when neither pair is.
C19_RepresentativeRms ==
  processed_df # None =>
    \A frame \in {FullFrame, processed_df} : \A i \in 1..Len(frame.rows) :
      LET r == frame.rows[i]
      IN r.rms_vol = IF {7, 14} \subseteq vol_windows THEN r.rms_7_14
                     ELSE IF {2, 3} \subseteq vol_windows THEN r.rms_2_3
                     ELSE NaN

\* C19 witness: both pairs configured and the latest returned row has
\* rms_vol equal to a 7-14 blend that differs from the 2-3 blend.
C19_Witness ==
  /\ processed_df # None
  /\ vol_windows = {2, 3, 7, 14}
  /\ ~Empty(processed_df)
  /\ LET latest == processed_df.rows[Len(processed_df.rows)]
     IN /\ latest.rms_vol = latest.rms_7_14
        /\ latest.rms_7_14 # latest.rms_2_3
        /\ latest.rms_vol # NaN

\* C20: a record's annualized_funding_rate is funding_rate x 3 x 365 when
\* the raw funding rate is defined (0.0001 gives 0.1095; rates in units of
\* 0.0001), and the record has no such field when the raw rate is undefined
\* or the series has no funding column.
C20_AnnualizedFunding ==
  results # None =>
    \A i \in 1..Len(results) :
      LET rec == results[i]
          raw == observations.rows[rec.date].funding_rate
      IN IF "funding_rate" \in observations.columns /\ raw # NaN
           THEN /\ rec.annualized_funding_rate = Num(raw.num * 3 * 365)
                /\ raw = Num(1) => rec.annualized_funding_rate = Num(1095)
                /\ rec.funding_rate = raw
           ELSE /\ "annualized_funding_rate" \notin DOMAIN rec
                /\ "funding_rate" \in observations.columns => rec.funding_rate = NaN
                /\ "funding_rate" \notin observations.columns =>
                     "funding_rate" \notin DOMAIN rec

\* C20 witness: records of a series with a funding column, one with the
\* rate 0.0001 annualised and one with an undefined rate and no annualised
\* field.
C20_Witness ==
  /\ results # None
  /\ \E i \in 1..Len(results) :
       /\ "annualized_funding_rate" \in DOMAIN results[i]
       /\ results[i].funding_rate = Num(1)
       /\ results[i].annualized_funding_rate = Num(1095)
  /\ \E i \in 1..Len(results) :
       /\ "funding_rate" \in DOMAIN results[i]
       /\ results[i].funding_rate = NaN
       /\ "annualized_funding_rate" \notin DOMAIN results[i]

(* ----------------------- claims on the adapters ----------------------- *)
\* C16: every series an adapter returns is strictly ascending by date, no
\* two rows sharing a date, whatever rows the provider's pages held.
C16_StrictlyAscending ==
  (apc = "returned" /\ series_out # None) =>
    \A i \in 1..(Len(series_out.rows) - 1) :
      series_out.rows[i].date < series_out.rows[i + 1].date

\* C17: the series the Binance adapter returns has exactly one row for each
\* kline row and no other row; a row's auxiliary columns are missing when no
\* auxiliary record has its date and are those of the record that has.
C17_LeftJoin ==
  (apc = "returned" /\ payload.provider = "binance") =>
    LET primary == PriceRows(payload.all_klines)
        funding == daily_funding(payload.all_funding)
        oi == open_interest_frame(payload.all_oi)
    IN /\ Len(series_out.rows) = Len(primary)
       /\ \A p \in Range(primary) :
            Cardinality({i \in 1..Len(series_out.rows) :
                           /\ series_out.rows[i].date = p.date
                           /\ series_out.rows[i].price = p.price}) = 1
       /\ \A i \in 1..Len(series_out.rows) :
            LET r == series_out.rows[i]
            IN /\ funding # None =>
                    IF \E f \in Range(funding.rows) : f.date = r.date
                      THEN \E f \in Range(funding.rows) :
                             f.date = r.date /\ r.funding_rate = f.funding_rate
                      ELSE r.funding_rate = NaN
               /\ oi # None =>
                    IF \E o \in Range(oi.rows) : o.date = r.date
                      THEN \E o \in Range(oi.rows) :
                             o.date = r.date /\ r.open_interest = o.open_interest
                      ELSE r.open_interest = NaN

(* ----------------- claims on the functions without state -------------- *)
\* C21: calculate_parkinson_volatility returns the undefined sentinel when
\* the high or the low column is unavailable and when a row of the slice
\* has low <= 0.
C21_ParkinsonUndefined ==
  (fpc = "returned" /\ call.fn = "calculate_parkinson_volatility") =>
    /\ ("high" \notin call.data.columns \/ "low" \notin call.data.columns) => ret = NaN
    /\ ("low" \in call.data.columns
          /\ \E i \in 1..Len(call.data.rows) : call.data.rows[i].low <= 0) => ret = NaN

\* C22: black_scholes returns (0, 0, 0, 0, 0) whenever time_to_expiry <= 0
\* or sigma <= 0, for every spot, strike, rate and side; the closed form is
\* not evaluated (no division, no logarithm).
C22_Degenerate ==
  (fpc = "returned" /\ call.fn = "black_scholes"
     /\ (call.args.T <= 0 \/ call.args.sigma <= 0)) => ret = Zeros

\* A degenerate call with a zero strike and a zero spot has returned, and
\* so has one on each side.
C22_Witness ==
  /\ fpc = "returned"
  /\ call.fn = "black_scholes"
  /\ call.args.T = 0
  /\ call.args.sigma > 0
  /\ call.args.K = 0
  /\ call.args.S = 0
  /\ ret = Zeros

\* The fields the records of one asset of a batch carry.
OwnFields(batch, symbol) ==
  UNION {DOMAIN r : r \in UNION {Range(AssetRecords(batch[i])) :
                                   i \in {j \in 1..Len(batch) : batch[j].symbol = symbol}}}

\* C23: a summary field of an asset (average or current value of a column)
\* is present only when the records of that asset carried the column, also
\* when another asset of the batch has it.
C23_OwnColumnsOnly ==
  (fpc = "returned" /\ call.fn = "generate_summary_stats") =>
    \A i \in 1..Len(ret) :
      (DOMAIN ret[i].avg) \cup (DOMAIN ret[i].current)
        \subseteq OwnFields(call.batch, ret[i].symbol)

(* --------------------- further claims on the engines ------------------ *)
ConstantPrices(frame) ==
  /\ Len(frame.rows) >= 2
  /\ \A i, j \in 1..Len(frame.rows) : frame.rows[i].price = frame.rows[j].price

\* C24: for a series whose prices are all equal, every HV the collector
\* records and every HV column of the screener's frame, computed or
\* returned, is exactly 0 wherever it is defined, for every window.
C24_ConstantPricesZeroHv ==
  ConstantPrices(observations) =>
    /\ results # None =>
         \A i \in 1..Len(results) : \A w \in CollectorWindows :
           results[i][HvField(w)] \in {NaN, Num(0)}
    /\ processed_df # None =>
         /\ \A i \in 1..Len(FullFrame.rows) : \A w \in vol_windows :
              FullFrame.rows[i][HvColumn(w)] \in {NaN, Num(0)}
         /\ \A i \in 1..Len(processed_df.rows) : \A w \in vol_windows :
              processed_df.rows[i][HvColumn(w)] = Num(0)

\* Both engines ran on a constant series long enough for a 14-day value:
\* the collector recorded zeros and undefined values, the screener returned
\* rows of zeros.
C24_Witness ==
  /\ ConstantPrices(observations)
  /\ epc = "displayed"
  /\ \E i \in 1..Len(results) : results[i].hv_7d = Num(0) /\ results[i].hv_14d = Num(0)
  /\ \E i \in 1..Len(results) : results[i].hv_7d = NaN
  /\ 14 \in vol_windows
  /\ processed_df.rows[1].hv_14 = Num(0)

(* -------------------- further claims on the pipeline ------------------ *)
\* C25: no request goes to CoinGecko for an asset whose CG API ID is blank,
\* NaN or 'N/A', and none to Kraken for a symbol outside the pair table; the
\* skipped provider is passed over and the next in the order is asked: the
\* first request of an asset without an id goes to Binance.
C25_BlankProviderSkipped ==
  result # None =>
    /\ result.coingecko_id \in Range(BlankForms) =>
         /\ "coingecko" \notin Range(attempts)
         /\ (inflight # None => inflight.api # "coingecko")
         /\ pc \notin {"cg_call", "cg_wait"}
         /\ (attempts # <<>> => attempts[1] = "binance")
    /\ result.symbol \notin kraken_pairs =>
         /\ "kraken" \notin Range(attempts)
         /\ (inflight # None => inflight.api # "kraken")
         /\ pc # "kr_wait"

\* An asset with neither a CoinGecko id nor a Kraken pair: Binance was asked
\* and gave nothing, Kraken was passed over, and the asset has no data.
C25_Witness ==
  /\ result # None
  /\ result.coingecko_id \in Range(BlankForms)
  /\ result.symbol \notin kraken_pairs
  /\ attempts = <<"binance">>
  /\ last_attempt = [prov |-> "kraken", ok |-> FALSE]
  /\ pc = "metrics"
  /\ result.price_data = None

\* The columns the screener computes for a window list.
ComputedColumns(windows_cfg) ==
  {HvColumn(w) : w \in windows_cfg}
    \cup (IF 2 \in windows_cfg /\ 3 \in windows_cfg THEN {"rms_2_3"} ELSE {})
    \cup (IF 7 \in windows_cfg /\ 14 \in windows_cfg THEN {"rms_7_14"} ELSE {})
    \cup {"rms_vol"}
NoPair(windows_cfg) ==
  /\ ~(2 \in windows_cfg /\ 3 \in windows_cfg)
  /\ ~(7 \in windows_cfg /\ 14 \in windows_cfg)

\* C26: every row the screener's calculate_hv_metrics returns has every
\* hv_w, every configured blend and rms_vol defined; a series of fewer than
\* max(windows) + 1 rows returns nothing; and with neither the pair (2, 3)
\* nor the pair (7, 14) configured nothing is returned, however long the
\* series is.
C26_ReturnedRowsComplete ==
  processed_df # None =>
    \A pair \in {<<observations, processed_df>>, <<observations_alt, processed_df_alt>>} :
      /\ \A i \in 1..Len(pair[2].rows) : \A c \in ComputedColumns(vol_windows) :
           pair[2].rows[i][c] # NaN
      /\ Len(get_crypto_data_coingecko(pair[1]).rows) < SetMax(vol_windows) + 1
           => Empty(pair[2])
      /\ NoPair(vol_windows) => Empty(pair[2])

\* The longest series with the windows 2 and 7, which form no pair: the
\* computed frame has rows with every HV defined, and nothing is returned.
C26_Witness ==
  /\ epc = "skipped"
  /\ vol_windows = {2, 7}
  /\ Len(observations.rows) = MaxLen
  /\ LongEnough
  /\ \E i \in 1..Len(FullFrame.rows) :
       FullFrame.rows[i].hv_2 # NaN /\ FullFrame.rows[i].hv_7 # NaN
  /\ Empty(processed_df)

(* -------------------- claims on the paginated fetch ------------------- *)
\* Consecutive pages share no row and the cursor grows from each non-empty
\* page to the next request.
PagesDisjoint ==
  \A i \in 1..(Len(pages) - 1) :
    /\ Last(pages[i].rows) < pages[i + 1].rows[1]
    /\ pages[i].start < pages[i + 1].start
CursorGrew == pages # <<>> => Last(pages).start < page_start \/ ppc = "failed"

Spaced(step) == \A a, b \in book : a < b => b - a >= step
\* No page was cut short of the rows the provider held.
WholePages == \A i \in 1..Len(pages) : ~pages[i].cut

PageBeforeCursor ==
  /\ last_resp # None
  /\ last_req # None
  /\ last_resp.api \in Paginated
  /\ last_resp.status = "200"
  /\ last_resp.n > 0
  /\ last_resp.last < last_req.startTime

\* Every asset of the catalog has been settled and the run is over.
AllSettled ==
  /\ pc = "done"
  /\ idx = NumAssets + 1
  /\ Len(hv_hist) = NumAssets

\* The assets are settled in catalog order: the k-th outcome belongs to the
\* k-th row of the catalog, and the loop is at the row after the last outcome.
CatalogOrder ==
  /\ Len(hv_hist) = idx - 1
  /\ \A k \in 1..Len(hv_hist) :
       \A j \in 1..Len(hv_hist[k].records) :
         hv_hist[k].records[j].symbol = assets_df[k].symbol

\* The provider's last answer was a rate-limit response, which the loop
\* repeats (lines 204-206, 289-291, 159-161).
RateLimited ==
  /\ last_resp # None
  /\ last_resp.status = "429"

OneObservation ==
  /\ pc = "metrics"
  /\ result.price_data # None
  /\ result.price_data.rows = 1

SliceLength(series, date, w) ==
  Len(TailRows(DatedUpTo(DropNaPrice(SortByDate(series.rows)), date), w))

\* C30: no record made from an adapter's series carries a defined Parkinson
\* value.  The series has no high and no low column; a record's
\* parkinson_vol_w is absent, or it is the undefined sentinel, and then the
\* series has a volume column and the window's slice at the record's date is
\* below the minimum-data threshold.
C30_NoDefinedParkinson ==
  /\ series_out # None => series_out.columns \cap {"high", "low"} = {}
  /\ records_out # None =>
       \A i \in 1..Len(records_out) : \A j \in 1..Len(windows) :
         ParkinsonField(windows[j]) \in DOMAIN records_out[i] =>
           /\ records_out[i][ParkinsonField(windows[j])] = NaN
           /\ "volume" \in series_out.columns
           /\ SliceLength(series_out, records_out[i].date, windows[j])
                < Max(2, windows[j] \div 2)

\* Records of a Binance series of which one has the sentinel for the 7-day
\* window and another, with enough rows behind it, no field for it.
C30_Witness ==
  /\ records_out # None
  /\ payload.provider = "binance"
  /\ \E i \in 1..Len(records_out) :
       /\ "parkinson_vol_7d" \in DOMAIN records_out[i]
       /\ records_out[i].parkinson_vol_7d = NaN
  /\ \E i \in 1..Len(records_out) :
       /\ "parkinson_vol_7d" \notin DOMAIN records_out[i]
       /\ "parkinson_vol_14d" \in DOMAIN records_out[i]
       /\ records_out[i].hv_7d # NaN

=============================================================================
